---- MODULE Spec2Model ----
(***************************************************************************)
(* Route search of goplaces: request defaulting and validation, the route  *)
(* orchestrator (Client.Route), the polyline decoder, the waypoint sampler *)
(* and the geo math it uses.                                               *)
(*                                                                         *)
(* Numbers.  TLA+ has integers only.  A coordinate is held in units of     *)
(* 1/UnitsPerDegree degree, as a mixed fraction <<w, n, d>> = w + n/d with *)
(* 0 <= n < d: input points are whole (n = 0, d = 1), interpolated points  *)
(* are exact fractions.  Distances are whole multiples of 1/DistScale      *)
(* unit.  Strings, encoded polylines included, are sequences of byte       *)
(* codes.  A float64 that is not a number is the fraction <<0, 0, 0>>.     *)
(*                                                                         *)
(* Specifications.  Spec: one call of Client.Route.  SampleSpec: one call  *)
(* of sampleWaypoints.  DecodeSpec: one call of decodePolyline.            *)
(* MeasureSpec: distanceMeters called both ways round.  ClientSpec: one    *)
(* call of Search, Details, Resolve or Route.                              *)
(***************************************************************************)
EXTENDS Integers, Sequences, FiniteSets, TLC

VARIABLES
    apiKey,        \* Client.apiKey
    rawReq,        \* the RouteRequest the caller passed to Route
    req,           \* Route's local req (after applyRouteDefaults)
    pc,            \* position of the Route call
    waypoints,     \* Route's local waypoints
    idx,           \* 1-based position of the range loop over waypoints
    results,       \* Route's local results
    resp,          \* the RouteResponse returned
    err,           \* the error returned
    net,           \* HTTP exchanges of the call, in order
    points,        \* sampler input: the coordinate sequence
    maxWaypoints,  \* sampler input
    sampled,       \* sampler output
    spc,           \* position of the sampler call
    decodeIn,      \* decoder input: the encoded polyline
    decodeOut,     \* decoder output: the error and the points
    dpc,           \* position of the decoder call
    measureA,      \* distanceMeters input: a
    measureB,      \* distanceMeters input: b
    distanceAB,    \* distanceMeters(a, b)
    distanceBA,    \* distanceMeters(b, a)
    mpc,           \* position of the two distanceMeters calls
    operation,     \* the client operation called: "Search", "Details", "Resolve"
    opReq,         \* the request passed to it
    cpc,           \* position of that call
    cliErr,        \* handleError input: the error, as its Unwrap chain
    exitCode,      \* handleError output
    hpc,           \* position of the handleError call
    priceLevel,    \* priceLevelToEnum key
    priceEnum,     \* mapPriceLevel input: the enum name
    pricePtr,      \* mapPriceLevel output: nil or the level
    ppc,           \* position of the price-level calls
    tablePoints,   \* pointAtDistance input: the coordinate sequence
    tableTarget,   \* pointAtDistance input: the target distance
    table,         \* cumulativeDistances output
    tableTotal,    \* totalDistance output
    located,       \* pointAtCumulative output and the path it took
    tpc,           \* position of the table calls
    heap,          \* backing arrays of the slices of concurrent calls
    calls,         \* the concurrent calls: arguments, locals and results
    given,         \* the caller's coordinate sequence before the calls
    routeE5,       \* latitudes of a route along a meridian, in 1e-5 degree
    wanted,        \* req.MaxWaypoints of the call for that route
    points64,      \* the route's points, as decodePolyline's float64 pairs
    waypoints64,   \* the waypoints sampleWaypoints returns for them
    biasErr,       \* the first error of the searches around the waypoints
    fpc            \* position of the call for that route

routeVars == <<apiKey, rawReq, req, pc, waypoints, idx, results, resp, err, net>>
sampleVars == <<points, maxWaypoints, sampled, spc>>
decodeVars == <<decodeIn, decodeOut, dpc>>
measureVars == <<measureA, measureB, distanceAB, distanceBA, mpc>>
clientVars == <<operation, opReq, cpc>>
exitVars == <<cliErr, exitCode, hpc>>
priceVars == <<priceLevel, priceEnum, pricePtr, ppc>>
tableVars == <<tablePoints, tableTarget, table, tableTotal, located, tpc>>
sharedVars == <<heap, calls, given>>
meridianVars == <<routeE5, wanted, points64, waypoints64, biasErr, fpc>>
helperVars == <<exitVars, priceVars, tableVars, sharedVars, meridianVars>>
vars == <<routeVars, sampleVars, decodeVars, measureVars, clientVars, helperVars>>

\* what a call of Route, of the sampler, of the decoder and of
\* distanceMeters leave alone
besideRoute == <<sampleVars, decodeVars, measureVars, clientVars, helperVars>>
besideSampler == <<routeVars, decodeVars, measureVars, clientVars, helperVars>>
besideDecoder == <<routeVars, sampleVars, measureVars, clientVars, helperVars>>
besideMeasure == <<routeVars, sampleVars, decodeVars, clientVars, helperVars>>
besideHelpers == <<routeVars, sampleVars, decodeVars, measureVars, clientVars>>
besideExit == <<besideHelpers, priceVars, tableVars, sharedVars, meridianVars>>
besidePrice == <<besideHelpers, exitVars, tableVars, sharedVars, meridianVars>>
besideTable == <<besideHelpers, exitVars, priceVars, sharedVars, meridianVars>>
besideShared == <<besideHelpers, exitVars, priceVars, tableVars, meridianVars>>
besideMeridian == <<besideHelpers, exitVars, priceVars, tableVars, sharedVars>>

(***************************************************************************)
(* Bounds of the model.                                                    *)
(***************************************************************************)
MaxPoints == 4
MaxResults == 1
MaxEncoded == 4
DistScale == 100

(***************************************************************************)
(* Program constants.                                                      *)
(***************************************************************************)
defaultSearchLimit == 10
defaultResolveLimit == 5
maxSearchLimit == 20
maxResolveLimit == 10
defaultRouteLimit == 5
defaultRouteRadiusM == 1000
defaultRouteWaypoints == 5
maxRouteWaypoints == 20
routePolylinePrecision == 100000

UnitsPerDegree == 2 * 1000000
\* const epsilon = 1e-6 (degrees), in coordinate units
epsilon == UnitsPerDegree \div 1000000

(***************************************************************************)
(* Strings: sequences of byte codes ("walk" is <<119, 97, 108, 107>>).     *)
(***************************************************************************)
\* unicode.IsSpace on ASCII: '\t', '\n', '\v', '\f', '\r', ' '
IsSpace(c) == c \in {9, 10, 11, 12, 13, 32}

\* unicode.IsSpace on the two-byte runes: U+0085 (0xC2 0x85), U+00A0 (0xC2 0xA0)
IsSpace2(c1, c2) == c1 = 194 /\ c2 \in {133, 160}

RECURSIVE TrimLeft(_)
TrimLeft(s) ==
    IF s = <<>> THEN <<>>
    ELSE IF IsSpace(Head(s)) THEN TrimLeft(Tail(s))
    ELSE IF Len(s) >= 2 /\ IsSpace2(s[1], s[2]) THEN TrimLeft(SubSeq(s, 3, Len(s)))
    ELSE s

RECURSIVE TrimRight(_)
TrimRight(s) ==
    IF s = <<>> THEN <<>>
    ELSE IF IsSpace(s[Len(s)]) THEN TrimRight(SubSeq(s, 1, Len(s) - 1))
    ELSE IF Len(s) >= 2 /\ IsSpace2(s[Len(s) - 1], s[Len(s)])
         THEN TrimRight(SubSeq(s, 1, Len(s) - 2))
    ELSE s

\* strings.TrimSpace
TrimSpace(s) == TrimRight(TrimLeft(s))

\* strings.ToUpper on ASCII: 'a'..'z' -> 'A'..'Z'
ToUpper(s) == [i \in 1..Len(s) |-> IF s[i] >= 97 /\ s[i] <= 122 THEN s[i] - 32 ELSE s[i]]

\* "DRIVE", "WALK", "BICYCLE", "TWO_WHEELER", "TRANSIT"
travelModeDrive == <<68, 82, 73, 86, 69>>
travelModeWalk == <<87, 65, 76, 75>>
travelModeBicycle == <<66, 73, 67, 89, 67, 76, 69>>
travelModeTwoWheeler == <<84, 87, 79, 95, 87, 72, 69, 69, 76, 69, 82>>
travelModeTransit == <<84, 82, 65, 78, 83, 73, 84>>

travelModes ==
    {travelModeDrive, travelModeWalk, travelModeBicycle, travelModeTwoWheeler,
     travelModeTransit}

(***************************************************************************)
(* Errors.                                                                 *)
(***************************************************************************)
NoError == [kind |-> "nil", field |-> ""]
ValidationError(f) == [kind |-> "ValidationError", field |-> f]
ErrMissingAPIKey == [kind |-> "ErrMissingAPIKey", field |-> ""]
OtherError(k) == [kind |-> k, field |-> ""]

(***************************************************************************)
(* Request defaults and validation.                                        *)
(***************************************************************************)
\* variant of applyRouteDefaults that leaves the mode's case alone
applyRouteDefaultsKeepCase(r) ==
    LET mode == TrimSpace(r.Mode)
    IN  [Query |-> TrimSpace(r.Query),
         From |-> TrimSpace(r.From),
         To |-> TrimSpace(r.To),
         Mode |-> IF mode = <<>> THEN travelModeDrive ELSE mode,
         Limit |-> IF r.Limit = 0 THEN defaultRouteLimit ELSE r.Limit,
         RadiusM |-> IF r.RadiusM = 0 THEN defaultRouteRadiusM ELSE r.RadiusM,
         MaxWaypoints |-> IF r.MaxWaypoints = 0 THEN defaultRouteWaypoints
                          ELSE r.MaxWaypoints]

applyRouteDefaults(r) ==
    LET mode == ToUpper(TrimSpace(r.Mode))
    IN  [Query |-> TrimSpace(r.Query),
         From |-> TrimSpace(r.From),
         To |-> TrimSpace(r.To),
         Mode |-> IF mode = <<>> THEN travelModeDrive ELSE mode,
         Limit |-> IF r.Limit = 0 THEN defaultRouteLimit ELSE r.Limit,
         RadiusM |-> IF r.RadiusM = 0 THEN defaultRouteRadiusM ELSE r.RadiusM,
         MaxWaypoints |-> IF r.MaxWaypoints = 0 THEN defaultRouteWaypoints
                          ELSE r.MaxWaypoints]

\* variant of validateRouteRequest without the travel-mode check
validateRouteRequestNoMode(r) ==
    IF r.Query = <<>> THEN ValidationError("query")
    ELSE IF r.From = <<>> THEN ValidationError("from")
    ELSE IF r.To = <<>> THEN ValidationError("to")
    ELSE IF r.Limit < 1 \/ r.Limit > maxSearchLimit THEN ValidationError("limit")
    ELSE IF r.RadiusM <= 0 THEN ValidationError("radius_m")
    ELSE IF r.MaxWaypoints < 1 \/ r.MaxWaypoints > maxRouteWaypoints
         THEN ValidationError("max_waypoints")
    ELSE NoError

\* variant of validateRouteRequest without the max-waypoints check
validateRouteRequestAnyWaypoints(r) ==
    IF r.Query = <<>> THEN ValidationError("query")
    ELSE IF r.From = <<>> THEN ValidationError("from")
    ELSE IF r.To = <<>> THEN ValidationError("to")
    ELSE IF r.Limit < 1 \/ r.Limit > maxSearchLimit THEN ValidationError("limit")
    ELSE IF r.RadiusM <= 0 THEN ValidationError("radius_m")
    ELSE IF r.Mode \notin travelModes THEN ValidationError("mode")
    ELSE NoError

\* variant of validateRouteRequest that checks the limit before the texts
validateRouteRequestLimitFirst(r) ==
    IF r.Limit < 1 \/ r.Limit > maxSearchLimit THEN ValidationError("limit")
    ELSE IF r.Query = <<>> THEN ValidationError("query")
    ELSE IF r.From = <<>> THEN ValidationError("from")
    ELSE IF r.To = <<>> THEN ValidationError("to")
    ELSE IF r.RadiusM <= 0 THEN ValidationError("radius_m")
    ELSE IF r.MaxWaypoints < 1 \/ r.MaxWaypoints > maxRouteWaypoints
         THEN ValidationError("max_waypoints")
    ELSE IF r.Mode \notin travelModes THEN ValidationError("mode")
    ELSE NoError

validateRouteRequest(r) ==
    IF r.Query = <<>> THEN ValidationError("query")
    ELSE IF r.From = <<>> THEN ValidationError("from")
    ELSE IF r.To = <<>> THEN ValidationError("to")
    ELSE IF r.Limit < 1 \/ r.Limit > maxSearchLimit THEN ValidationError("limit")
    ELSE IF r.RadiusM <= 0 THEN ValidationError("radius_m")
    ELSE IF r.MaxWaypoints < 1 \/ r.MaxWaypoints > maxRouteWaypoints
         THEN ValidationError("max_waypoints")
    ELSE IF r.Mode \notin travelModes THEN ValidationError("mode")
    ELSE NoError

(***************************************************************************)
(* Coordinates.                                                            *)
(***************************************************************************)
Abs(x) == IF x < 0 THEN -x ELSE x

RECURSIVE GCD(_, _)
GCD(a, b) == IF b = 0 THEN a ELSE GCD(b, a % b)

\* the mixed fraction of whole + num/den (den > 0), in lowest terms
Mixed(whole, num, den) ==
    LET w == whole + (num \div den)
        n == num % den
        g == GCD(den, n)
    IN  <<w, n \div g, den \div g>>

Whole(x) == <<x, 0, 1>>

\* LatLng{Lat: lat, Lng: lng} of whole coordinates
LatLng(lat, lng) == [Lat |-> Whole(lat), Lng |-> Whole(lng)]

\* math.Abs(x - y) < e for mixed fractions x, y and a whole e >= 0
AbsDiffLess(x, y, e) ==
    LET dw == x[1] - y[1]
    IN  IF Abs(dw) > e THEN FALSE
        ELSE Abs(dw * x[3] * y[3] + x[2] * y[3] - y[2] * x[3]) < e * x[3] * y[3]

\* the float64 that is not a number: a fraction with denominator 0
NaN == <<0, 0, 0>>

\* x < k and x > k for a mixed fraction x and a whole k; both are false of NaN
LessThan(x, k) == x[3] # 0 /\ x[1] < k
GreaterThan(x, k) == x[3] # 0 /\ (x[1] > k \/ (x[1] = k /\ x[2] > 0))

(***************************************************************************)
(* Geo math.  On the points of the model (a few units apart next to the    *)
(* equator, or on one meridian) the haversine distance is the Euclidean    *)
(* distance of the coordinates, up to a factor every distance shares; it   *)
(* is held rounded down to 1/DistScale unit.                               *)
(***************************************************************************)
RECURSIVE SqrtBetween(_, _, _)
SqrtBetween(n, lo, hi) ==
    IF lo >= hi THEN lo
    ELSE LET mid == (lo + hi + 1) \div 2
         IN  IF mid * mid <= n THEN SqrtBetween(n, mid, hi)
             ELSE SqrtBetween(n, lo, mid - 1)

\* math.Sqrt, rounded down
ISqrt(n) == SqrtBetween(n, 0, IF n < 46340 THEN n ELSE 46340)

\* variant of distanceMeters that keeps the sign of the difference
distanceMetersSigned(a, b) ==
    LET dlat == b.Lat[1] - a.Lat[1]
        dlng == b.Lng[1] - a.Lng[1]
    IN  IF dlng = 0 THEN DistScale * dlat
        ELSE IF dlat = 0 THEN DistScale * dlng
        ELSE ISqrt(DistScale * DistScale * (dlat * dlat + dlng * dlng))

distanceMeters(a, b) ==
    LET dlat == b.Lat[1] - a.Lat[1]
        dlng == b.Lng[1] - a.Lng[1]
    IN  IF dlng = 0 THEN DistScale * Abs(dlat)
        ELSE IF dlat = 0 THEN DistScale * Abs(dlng)
        ELSE ISqrt(DistScale * DistScale * (dlat * dlat + dlng * dlng))

\* variant of cumulativeFrom that stores each segment's length
RECURSIVE cumulativeFromSegments(_, _, _)
cumulativeFromSegments(pts, i, distances) ==
    IF i > Len(pts) THEN distances
    ELSE cumulativeFromSegments(pts, i + 1,
            Append(distances, distanceMeters(pts[i - 1], pts[i])))

RECURSIVE cumulativeFrom(_, _, _)
cumulativeFrom(pts, i, distances) ==
    IF i > Len(pts) THEN distances
    ELSE cumulativeFrom(pts, i + 1,
            Append(distances, distances[i - 1] + distanceMeters(pts[i - 1], pts[i])))

cumulativeDistances(pts) ==
    IF Len(pts) = 0 THEN <<>> ELSE cumulativeFrom(pts, 2, <<0>>)

RECURSIVE totalFrom(_, _, _)
totalFrom(pts, i, total) ==
    IF i > Len(pts) THEN total
    ELSE totalFrom(pts, i + 1, total + distanceMeters(pts[i - 1], pts[i]))

totalDistance(pts) ==
    IF Len(pts) < 2 THEN 0 ELSE totalFrom(pts, 2, 0)

(***************************************************************************)
(* Waypoint sampler.  A target distance is the fraction tn/td (td > 0).    *)
(* Indices are 0-based as in the source; At reads a sequence 0-based.      *)
(***************************************************************************)
At(s, i) == s[i + 1]

\* variant of samePoint that compares exactly
samePointExact(a, b) == a = b

samePoint(a, b) ==
    AbsDiffLess(a.Lat, b.Lat, epsilon) /\ AbsDiffLess(a.Lng, b.Lng, epsilon)

\* variant of sortSearch with f(i) = cumulative[i] > target
RECURSIVE sortSearchAbove(_, _, _, _, _)
sortSearchAbove(i, j, cumulative, tn, td) ==
    IF i < j
    THEN LET h == (i + j) \div 2
         IN  IF ~(At(cumulative, h) * td > tn)
             THEN sortSearchAbove(h + 1, j, cumulative, tn, td)
             ELSE sortSearchAbove(i, h, cumulative, tn, td)
    ELSE i

\* sort.Search(n, f) with f(i) = cumulative[i] >= target, started with i, j = 0, n
RECURSIVE sortSearch(_, _, _, _, _)
sortSearch(i, j, cumulative, tn, td) ==
    IF i < j
    THEN LET h == (i + j) \div 2
         IN  IF ~(At(cumulative, h) * td >= tn)
             THEN sortSearch(h + 1, j, cumulative, tn, td)
             ELSE sortSearch(i, h, cumulative, tn, td)
    ELSE i

\* variant of Interpolate that steps back from next
InterpolateFromNext(prev, next, fnum, fden) ==
    Mixed(next[1], (prev[1] - next[1]) * fnum, fden)

\* prev + (next - prev) * fraction with fraction = fnum/fden
Interpolate(prev, next, fnum, fden) ==
    Mixed(prev[1], (next[1] - prev[1]) * fnum, fden)

pointAtCumulative(pts, cumulative, tn, td) ==
    IF tn <= 0 THEN At(pts, 0)
    ELSE LET total == At(cumulative, Len(cumulative) - 1)
         IN  IF tn >= total * td THEN At(pts, Len(pts) - 1)
             ELSE LET index == sortSearch(0, Len(cumulative), cumulative, tn, td)
                  IN  IF index = 0 THEN At(pts, 0)
                      ELSE LET prev == At(pts, index - 1)
                               next == At(pts, index)
                               segment == At(cumulative, index) - At(cumulative, index - 1)
                           IN  IF segment <= 0 THEN next
                               ELSE [Lat |-> Interpolate(prev.Lat, next.Lat,
                                                tn - At(cumulative, index - 1) * td, segment * td),
                                     Lng |-> Interpolate(prev.Lng, next.Lng,
                                                tn - At(cumulative, index - 1) * td, segment * td)]

pointAtDistance(pts, tn, td) ==
    IF Len(pts) = 0 THEN LatLng(0, 0)
    ELSE pointAtCumulative(pts, cumulativeDistances(pts), tn, td)

\* variant of uniqueWaypoints' loop that drops a point that is the same as
\* any point kept so far
RECURSIVE uniqueFromAnyKept(_, _, _)
uniqueFromAnyKept(pts, i, result) ==
    IF i > Len(pts) THEN result
    ELSE IF \A k \in 1..Len(result) : ~samePoint(result[k], pts[i])
         THEN uniqueFromAnyKept(pts, i + 1, Append(result, pts[i]))
         ELSE uniqueFromAnyKept(pts, i + 1, result)

RECURSIVE uniqueFrom(_, _, _)
uniqueFrom(pts, i, result) ==
    IF i > Len(pts) THEN result
    ELSE IF Len(result) = 0 \/ ~samePoint(result[Len(result)], pts[i])
         THEN uniqueFrom(pts, i + 1, Append(result, pts[i]))
         ELSE uniqueFrom(pts, i + 1, result)

uniqueWaypoints(pts) == uniqueFrom(pts, 1, <<>>)

\* variant of the loop with spacing = total / n
RECURSIVE sampleLoopSpacingN(_, _, _, _, _, _)
sampleLoopSpacingN(pts, cumulative, total, n, i, out) ==
    IF ~(i < n) THEN out
    ELSE LET point == pointAtCumulative(pts, cumulative, total * i, n)
         IN  IF Len(out) = 0 \/ ~samePoint(out[Len(out)], point)
             THEN sampleLoopSpacingN(pts, cumulative, total, n, i + 1, Append(out, point))
             ELSE sampleLoopSpacingN(pts, cumulative, total, n, i + 1, out)

\* the loop of sampleWaypoints: spacing = total / (n - 1), target = spacing * i
RECURSIVE sampleLoop(_, _, _, _, _, _)
sampleLoop(pts, cumulative, total, n, i, out) ==
    IF ~(i < n) THEN out
    ELSE LET point == pointAtCumulative(pts, cumulative, total * i, n - 1)
         IN  IF Len(out) = 0 \/ ~samePoint(out[Len(out)], point)
             THEN sampleLoop(pts, cumulative, total, n, i + 1, Append(out, point))
             ELSE sampleLoop(pts, cumulative, total, n, i + 1, out)

\* variant of the first guard that lets maxWaypoints = 0 through
nothingToSampleZeroAllowed(pts, n) == Len(pts) = 0 \/ n < 0

\* variant of the first guard that also stops at a single point
nothingToSampleOnePoint(pts, n) == Len(pts) <= 1 \/ n <= 0

\* the first guard of sampleWaypoints
nothingToSample(pts, n) == Len(pts) = 0 \/ n <= 0

\* variant of sampleWaypoints whose single waypoint is a third of the way
sampleWaypointsThird(pts, n) ==
    IF nothingToSample(pts, n) THEN <<>>
    ELSE IF Len(pts) = 1 THEN <<pts[1]>>
    ELSE IF n = 1 THEN <<pointAtDistance(pts, totalDistance(pts), 3)>>
    ELSE IF n >= Len(pts) THEN uniqueWaypoints(pts)
    ELSE LET cumulative == cumulativeDistances(pts)
             total == At(cumulative, Len(cumulative) - 1)
         IN  IF total = 0 THEN <<pts[1]>>
             ELSE sampleLoop(pts, cumulative, total, n, 0, <<>>)

sampleWaypoints(pts, n) ==
    IF nothingToSample(pts, n) THEN <<>>
    ELSE IF Len(pts) = 1 THEN <<pts[1]>>
    ELSE IF n = 1 THEN <<pointAtDistance(pts, totalDistance(pts), 2)>>
    ELSE IF n >= Len(pts) THEN uniqueWaypoints(pts)
    ELSE LET cumulative == cumulativeDistances(pts)
             total == At(cumulative, Len(cumulative) - 1)
         IN  IF total = 0 THEN <<pts[1]>>
             ELSE sampleLoop(pts, cumulative, total, n, 0, <<>>)

(***************************************************************************)
(* Polyline codec.                                                         *)
(***************************************************************************)
\* x << shift on Go's 64-bit int, for the values the model's polylines reach
ShiftLeft(x, shift) == IF x = 0 \/ shift >= 64 THEN 0 ELSE x * 2 ^ shift

\* (delta >> 1) ^ (-(delta & 1)) for delta >= 0
unZigZag(delta) == IF delta % 2 = 0 THEN delta \div 2 ELSE -(delta \div 2) - 1

\* variant of readVarint that refuses the bytes below '?' (63)
RECURSIVE readVarintAlphabet(_, _, _, _)
readVarintAlphabet(encoded, i, delta, shift) ==
    IF i >= Len(encoded) THEN [ok |-> FALSE, delta |-> 0, i |-> i]
    ELSE LET b == At(encoded, i) - 63
             d == delta + ShiftLeft(b % 32, shift)
         IN  IF b < 0 THEN [ok |-> FALSE, delta |-> 0, i |-> i]
             ELSE IF b < 32 THEN [ok |-> TRUE, delta |-> d, i |-> i + 1]
             ELSE readVarintAlphabet(encoded, i + 1, d, shift + 5)

\* one inner for-loop of decodePolyline, entered with delta = 0, shift = 0
RECURSIVE readVarint(_, _, _, _)
readVarint(encoded, i, delta, shift) ==
    IF i >= Len(encoded) THEN [ok |-> FALSE, delta |-> 0, i |-> i]
    ELSE LET b == At(encoded, i) - 63
             d == delta + ShiftLeft(b % 32, shift)
         IN  IF b < 32 THEN [ok |-> TRUE, delta |-> d, i |-> i + 1]
             ELSE readVarint(encoded, i + 1, d, shift + 5)

\* float64(v) / routePolylinePrecision, in coordinate units
toDegrees(v) == v * (UnitsPerDegree \div routePolylinePrecision)

\* variant of decodePolyline's loop that returns the points read so far
\* with the error
RECURSIVE decodeFromPartial(_, _, _, _, _)
decodeFromPartial(encoded, i, lat, lng, pts) ==
    IF ~(i < Len(encoded)) THEN [err |-> NoError, points |-> pts]
    ELSE LET first == readVarint(encoded, i, 0, 0)
         IN  IF ~first.ok THEN [err |-> OtherError("invalid polyline"), points |-> pts]
             ELSE LET second == readVarint(encoded, first.i, 0, 0)
                  IN  IF ~second.ok
                      THEN [err |-> OtherError("invalid polyline"), points |-> pts]
                      ELSE LET lat2 == lat + unZigZag(first.delta)
                               lng2 == lng + unZigZag(second.delta)
                           IN  decodeFromPartial(encoded, second.i, lat2, lng2,
                                   Append(pts, LatLng(toDegrees(lat2), toDegrees(lng2))))

\* variant of decodePolyline's loop that takes each pair as a position, not
\* as a step from the point before
RECURSIVE decodeFromAbsolute(_, _, _, _, _)
decodeFromAbsolute(encoded, i, lat, lng, pts) ==
    IF ~(i < Len(encoded)) THEN [err |-> NoError, points |-> pts]
    ELSE LET first == readVarint(encoded, i, 0, 0)
         IN  IF ~first.ok THEN [err |-> OtherError("invalid polyline"), points |-> <<>>]
             ELSE LET second == readVarint(encoded, first.i, 0, 0)
                  IN  IF ~second.ok
                      THEN [err |-> OtherError("invalid polyline"), points |-> <<>>]
                      ELSE LET lat2 == unZigZag(first.delta)
                               lng2 == unZigZag(second.delta)
                           IN  decodeFromAbsolute(encoded, second.i, lat2, lng2,
                                   Append(pts, LatLng(toDegrees(lat2), toDegrees(lng2))))

RECURSIVE decodeFrom(_, _, _, _, _)
decodeFrom(encoded, i, lat, lng, pts) ==
    IF ~(i < Len(encoded)) THEN [err |-> NoError, points |-> pts]
    ELSE LET first == readVarint(encoded, i, 0, 0)
         IN  IF ~first.ok THEN [err |-> OtherError("invalid polyline"), points |-> <<>>]
             ELSE LET second == readVarint(encoded, first.i, 0, 0)
                  IN  IF ~second.ok
                      THEN [err |-> OtherError("invalid polyline"), points |-> <<>>]
                      ELSE LET lat2 == lat + unZigZag(first.delta)
                               lng2 == lng + unZigZag(second.delta)
                           IN  decodeFrom(encoded, second.i, lat2, lng2,
                                   Append(pts, LatLng(toDegrees(lat2), toDegrees(lng2))))

decodePolyline(encoded) ==
    IF TrimSpace(encoded) = <<>>
    THEN [err |-> OtherError("empty polyline"), points |-> <<>>]
    ELSE decodeFrom(encoded, 0, 0, 0, <<>>)

(***************************************************************************)
(* Search: defaults and validation of the request Route builds.            *)
(***************************************************************************)
applySearchDefaults(r) ==
    [r EXCEPT !.Limit = IF r.Limit = 0 THEN defaultSearchLimit ELSE r.Limit]

\* bounds of validateLocationBias, in coordinate units
maxLat == 90 * UnitsPerDegree
maxLng == 180 * UnitsPerDegree

\* a pointer is <<>> (nil) or <<v>>; RadiusM is held in whole meters
validateLocationBias(bias) ==
    IF bias = <<>> THEN NoError
    ELSE IF bias[1].RadiusM <= 0 THEN ValidationError("location_bias.radius_m")
    ELSE IF LessThan(bias[1].Lat, -maxLat) \/ GreaterThan(bias[1].Lat, maxLat)
         THEN ValidationError("location_bias.lat")
    ELSE IF LessThan(bias[1].Lng, -maxLng) \/ GreaterThan(bias[1].Lng, maxLng)
         THEN ValidationError("location_bias.lng")
    ELSE NoError

\* the req.Filters != nil block of validateSearchRequest; MinRating is a
\* mixed fraction of rating points
validateFilters(filters) ==
    IF filters = <<>> THEN NoError
    ELSE IF /\ filters[1].MinRating # <<>>
            /\ \/ LessThan(filters[1].MinRating[1], 0)
               \/ GreaterThan(filters[1].MinRating[1], 5)
         THEN ValidationError("filters.min_rating")
    ELSE IF \E i \in 1..Len(filters[1].PriceLevels) :
                filters[1].PriceLevels[i] < 0 \/ filters[1].PriceLevels[i] > 4
         THEN ValidationError("filters.price_levels")
    ELSE NoError

validateSearchRequest(r) ==
    IF TrimSpace(r.Query) = <<>> THEN ValidationError("query")
    ELSE IF r.Limit < 1 \/ r.Limit > maxSearchLimit THEN ValidationError("limit")
    ELSE IF validateFilters(r.Filters) # NoError THEN validateFilters(r.Filters)
    ELSE IF r.LocationBias # <<>> THEN validateLocationBias(r.LocationBias)
    ELSE NoError

\* the SearchRequest literal of Route's loop
searchRequestFor(r, waypoint) ==
    [Query |-> r.Query,
     Limit |-> r.Limit,
     Filters |-> <<>>,
     LocationBias |-> <<[Lat |-> waypoint.Lat, Lng |-> waypoint.Lng, RadiusM |-> r.RadiusM]>>]

(***************************************************************************)
(* Details and Resolve; the part of an operation that runs before its HTTP *)
(* request is sent.                                                        *)
(***************************************************************************)
applyResolveDefaults(r) ==
    [r EXCEPT !.Limit = IF r.Limit = 0 THEN defaultResolveLimit ELSE r.Limit]

validateResolveRequest(r) ==
    IF TrimSpace(r.LocationText) = <<>> THEN ValidationError("location_text")
    ELSE IF r.Limit < 1 \/ r.Limit > maxResolveLimit THEN ValidationError("limit")
    ELSE NoError

\* '0'..'9', 'A'..'F', 'a'..'f'
IsHex(c) == c \in (48..57) \cup (65..70) \cup (97..102)

\* url.Parse on a path without '?' and '#': it fails on an ASCII control
\* character and on a '%' that two hex digits do not follow
urlParses(path) ==
    \A i \in 1..Len(path) :
        /\ path[i] >= 32
        /\ path[i] # 127
        /\ path[i] = 37 =>
                i + 2 <= Len(path) /\ IsHex(path[i + 1]) /\ IsHex(path[i + 2])

\* the error of buildURL for a path after the base URL (DefaultBaseURL) and
\* a query map of queryLen entries
buildURL(path, queryLen) ==
    IF queryLen = 0 THEN NoError
    ELSE IF ~urlParses(path) THEN OtherError("invalid url")
    ELSE NoError

\* json.Marshal of the search body fails on a NaN
searchBodyMarshals(r) ==
    /\ r.Filters # <<>> => (r.Filters[1].MinRating # <<>> => r.Filters[1].MinRating[1] # NaN)
    /\ r.LocationBias # <<>> => (r.LocationBias[1].Lat # NaN /\ r.LocationBias[1].Lng # NaN)

\* variant of doRequest that tests the key without trimming it
doRequestNoTrim(key, marshals) ==
    IF key = <<>> THEN ErrMissingAPIKey
    ELSE IF ~marshals THEN OtherError("encode request")
    ELSE NoError

\* doRequest up to the request it sends: the error it returns before, if any
doRequest(key, marshals) ==
    IF TrimSpace(key) = <<>> THEN ErrMissingAPIKey
    ELSE IF ~marshals THEN OtherError("encode request")
    ELSE NoError

\* Client.Search up to the request doRequest sends
Search(key, rq) ==
    LET r == applySearchDefaults(rq)
    IN  IF validateSearchRequest(r) # NoError THEN validateSearchRequest(r)
        ELSE IF buildURL(<<47, 112, 108, 97, 99, 101, 115, 58>>, 0) # NoError
             THEN buildURL(<<47, 112, 108, 97, 99, 101, 115, 58>>, 0)
        ELSE doRequest(key, searchBodyMarshals(r))

\* Client.DetailsWithOptions up to the request doRequest sends; the path is
\* "/places/" + placeID, the query map has languageCode and regionCode
DetailsWithOptions(key, rq) ==
    LET placeID == TrimSpace(rq.PlaceID)
        path == <<47, 112, 108, 97, 99, 101, 115, 47>> \o placeID
    IN  IF placeID = <<>> THEN ValidationError("place_id")
        ELSE IF buildURL(path, 2) # NoError THEN buildURL(path, 2)
        ELSE doRequest(key, TRUE)

\* Client.Resolve up to the request doRequest sends
Resolve(key, rq) ==
    LET r == applyResolveDefaults(rq)
    IN  IF validateResolveRequest(r) # NoError THEN validateResolveRequest(r)
        ELSE IF buildURL(<<47, 112, 108, 97, 99, 101, 115, 58>>, 0) # NoError
             THEN buildURL(<<47, 112, 108, 97, 99, 101, 115, 58>>, 0)
        ELSE doRequest(key, TRUE)

(***************************************************************************)
(* The collaborators: what the routes and the places endpoints answer.     *)
(***************************************************************************)
\* encoded polylines: "", " ", "_", "??", "???A", "???AA?", "???A?@A?",
\* "acidP?" (latitude 90.00001), "_cidP?A?" (latitudes 90 and 90.00001)
polyEmpty == <<>>
polyBlank == <<32>>
polyCut == <<95>>
polyOne == <<63, 63>>
polyTwo == <<63, 63, 63, 65>>
polyThree == <<63, 63, 63, 65, 65, 63>>
polyFour == <<63, 63, 63, 65, 63, 64, 65, 63>>
polyBeyond == <<97, 99, 105, 100, 80, 63>>
polyEdge == <<95, 99, 105, 100, 80, 63, 65, 63>>

\* the "routes" array of a routes answer: the encodedPolyline of each route
RouteLists ==
    {<<>>, <<polyEmpty>>, <<polyBlank>>, <<polyCut>>, <<polyOne>>, <<polyTwo>>,
     <<polyThree>>, <<polyFour>>, <<polyBeyond>>, <<polyEdge>>,
     <<polyThree, polyOne>>, <<polyEmpty, polyTwo>>}

RECURSIVE SeqsUpTo(_, _)
SeqsUpTo(S, n) ==
    IF n = 0 THEN {<<>>}
    ELSE LET shorter == SeqsUpTo(S, n - 1)
         IN  shorter \cup {Append(q, x) : q \in shorter, x \in S}

\* the places of a search answer, as their ids
PlaceLists == SeqsUpTo({"cafe"}, MaxResults)

\* doRequest failing after the request was sent (transport error, status >= 400)
RequestFailed == OtherError("request failed")

(***************************************************************************)
(* Client.Route.                                                           *)
(***************************************************************************)
emptyResponse == [Waypoints |-> <<>>]

Event(op, ev, wp, body) == [op |-> op, ev |-> ev, wp |-> wp, body |-> body]

Return(r, e) ==
    /\ resp' = r
    /\ err' = e
    /\ pc' = "done"

\* variant of firstRoute that takes the last route
firstRouteLast(routes) == routes[Len(routes)]

\* response.Routes[0].Polyline.EncodedPolyline
firstRoute(routes) == routes[1]

\* computeRoutePolyline, from the decoded answer on
routePolylineOf(routes) ==
    IF Len(routes) = 0 THEN [err |-> OtherError("no routes returned"), polyline |-> <<>>]
    ELSE LET polyline == TrimSpace(firstRoute(routes))
         IN  IF polyline = <<>>
             THEN [err |-> OtherError("empty route polyline"), polyline |-> <<>>]
             ELSE [err |-> NoError, polyline |-> polyline]

\* variant of appendResult that puts the new entry first
appendResultFirst(rs, waypoint, places) ==
    <<[Location |-> waypoint, Results |-> places]>> \o rs

\* results = append(results, RouteWaypoint{...})
appendResult(rs, waypoint, places) ==
    Append(rs, [Location |-> waypoint, Results |-> places])

\* Route called: defaults and validation
RouteStart ==
    /\ pc = "call"
    /\ LET r == applyRouteDefaults(rawReq)
           e == validateRouteRequest(r)
       IN  /\ req' = r
           /\ IF e # NoError
              THEN Return(emptyResponse, e)
              ELSE pc' = "fetch" /\ UNCHANGED <<resp, err>>
    /\ UNCHANGED <<apiKey, rawReq, waypoints, idx, results, net, besideRoute>>

\* computeRoutePolyline up to the request doRequest sends
FetchSend ==
    /\ pc = "fetch"
    /\ IF TrimSpace(apiKey) = <<>>
       THEN Return(emptyResponse, ErrMissingAPIKey) /\ UNCHANGED net
       ELSE /\ net' = Append(net, Event("fetch", "send", 0, <<>>))
            /\ pc' = "fetch_wait"
            /\ UNCHANGED <<resp, err>>
    /\ UNCHANGED <<apiKey, rawReq, req, waypoints, idx, results, besideRoute>>

\* the routes request failed
FetchFail ==
    /\ pc = "fetch_wait"
    /\ net' = Append(net, Event("fetch", "fail", 0, <<>>))
    /\ Return(emptyResponse, RequestFailed)
    /\ UNCHANGED <<apiKey, rawReq, req, waypoints, idx, results, besideRoute>>

\* the routes answer arrived: rest of computeRoutePolyline, decodePolyline,
\* sampleWaypoints, and entry into the loop
FetchReturn ==
    /\ pc = "fetch_wait"
    /\ \E routes \in RouteLists :
        LET got == routePolylineOf(routes)
            decoded == decodePolyline(got.polyline)
            wps == sampleWaypoints(decoded.points, req.MaxWaypoints)
        IN  /\ net' = Append(net, Event("fetch", "ok", 0, routes))
            /\ IF got.err # NoError
               THEN Return(emptyResponse, got.err) /\ UNCHANGED <<waypoints, idx, results>>
               ELSE IF decoded.err # NoError
               THEN Return(emptyResponse, decoded.err) /\ UNCHANGED <<waypoints, idx, results>>
               ELSE IF Len(wps) = 0
               THEN Return(emptyResponse, OtherError("no route waypoints"))
                    /\ UNCHANGED <<waypoints, idx, results>>
               ELSE /\ waypoints' = wps
                    /\ idx' = 1
                    /\ results' = <<>>
                    /\ pc' = "search"
                    /\ UNCHANGED <<resp, err>>
    /\ UNCHANGED <<apiKey, rawReq, req, besideRoute>>

\* c.Search for the waypoint at idx, up to the request doRequest sends
SearchSend ==
    /\ pc = "search"
    /\ LET sreq == applySearchDefaults(searchRequestFor(req, waypoints[idx]))
           e == validateSearchRequest(sreq)
       IN  IF e # NoError
           THEN Return(emptyResponse, e) /\ UNCHANGED net
           ELSE IF TrimSpace(apiKey) = <<>>
           THEN Return(emptyResponse, ErrMissingAPIKey) /\ UNCHANGED net
           ELSE /\ net' = Append(net, Event("search", "send", idx, <<>>))
                /\ pc' = "search_wait"
                /\ UNCHANGED <<resp, err>>
    /\ UNCHANGED <<apiKey, rawReq, req, waypoints, idx, results, besideRoute>>

\* variants of searchFailed: return the entries gathered so far; go on with
\* the next waypoint; search the same waypoint again
searchFailedKeepPartial(e) ==
    /\ Return([Waypoints |-> results], e)
    /\ UNCHANGED <<idx, results>>

searchFailedContinue(e) ==
    /\ IF idx = Len(waypoints)
       THEN Return([Waypoints |-> results], NoError) /\ UNCHANGED idx
       ELSE idx' = idx + 1 /\ pc' = "search" /\ UNCHANGED <<resp, err>>
    /\ UNCHANGED results

searchFailedRetry(e) ==
    /\ pc' = "search"
    /\ UNCHANGED <<idx, results, resp, err>>

\* if err != nil { return RouteResponse{}, err } in the loop
searchFailed(e) ==
    /\ Return(emptyResponse, e)
    /\ UNCHANGED <<idx, results>>

\* the search request failed
SearchFail ==
    /\ pc = "search_wait"
    /\ net' = Append(net, Event("search", "fail", idx, <<>>))
    /\ searchFailed(RequestFailed)
    /\ UNCHANGED <<apiKey, rawReq, req, waypoints, besideRoute>>

\* the search answer arrived: append, then the next waypoint or the return
SearchReturn ==
    /\ pc = "search_wait"
    /\ \E places \in PlaceLists :
        LET rs == appendResult(results, waypoints[idx], places)
        IN  /\ net' = Append(net, Event("search", "ok", idx, places))
            /\ results' = rs
            /\ IF idx = Len(waypoints)
               THEN Return([Waypoints |-> rs], NoError) /\ UNCHANGED idx
               ELSE idx' = idx + 1 /\ pc' = "search" /\ UNCHANGED <<resp, err>>
    /\ UNCHANGED <<apiKey, rawReq, req, waypoints, besideRoute>>

\* "", " ", "c "
Queries == {<<>>, <<32>>, <<99, 32>>}
\* "", "A"
Origins == {<<>>, <<65>>}
\* " ", "B"
Destinations == {<<32>>, <<66>>}
\* "", " ", "walk", " Transit ", "DRIVE", "FLY"
Modes ==
    {<<>>, <<32>>, <<119, 97, 108, 107>>, <<32, 84, 114, 97, 110, 115, 105, 116, 32>>,
     travelModeDrive, <<70, 76, 89>>}
Limits == {-1, 0, 1, maxSearchLimit + 1}
Radii == {-1, 0, 1}
WaypointCounts == {-1, 0, 1, 2, 3, maxRouteWaypoints + 1}
\* " ", "k"
APIKeys == {<<32>>, <<107>>}

RouteRequests ==
    [Query : Queries, From : Origins, To : Destinations, Mode : Modes,
     Limit : Limits, RadiusM : Radii, MaxWaypoints : WaypointCounts]

SamplerIdle ==
    /\ points = <<>>
    /\ maxWaypoints = 0
    /\ sampled = <<>>
    /\ spc = "off"

DecoderIdle ==
    /\ decodeIn = <<>>
    /\ decodeOut = [err |-> NoError, points |-> <<>>]
    /\ dpc = "off"

RouteIdle ==
    /\ apiKey = <<>>
    /\ rawReq = <<>>
    /\ req = <<>>
    /\ pc = "off"
    /\ waypoints = <<>>
    /\ idx = 0
    /\ results = <<>>
    /\ resp = emptyResponse
    /\ err = NoError
    /\ net = <<>>

MeasureIdle ==
    /\ measureA = LatLng(0, 0)
    /\ measureB = LatLng(0, 0)
    /\ distanceAB = 0
    /\ distanceBA = 0
    /\ mpc = "off"

ClientIdle ==
    /\ operation = ""
    /\ opReq = <<>>
    /\ cpc = "off"

ExitIdle ==
    /\ cliErr = <<>>
    /\ exitCode = 0
    /\ hpc = "off"

PriceIdle ==
    /\ priceLevel = 0
    /\ priceEnum = ""
    /\ pricePtr = <<>>
    /\ ppc = "off"

TableIdle ==
    /\ tablePoints = <<>>
    /\ tableTarget = <<0, 1>>
    /\ table = <<>>
    /\ tableTotal = 0
    /\ located = <<>>
    /\ tpc = "off"

SharedIdle ==
    /\ heap = <<>>
    /\ calls = <<>>
    /\ given = <<>>

MeridianIdle ==
    /\ routeE5 = <<>>
    /\ wanted = 0
    /\ points64 = <<>>
    /\ waypoints64 = <<>>
    /\ biasErr = NoError
    /\ fpc = "off"

HelpersIdle == ExitIdle /\ PriceIdle /\ TableIdle /\ SharedIdle /\ MeridianIdle
BesideHelpersIdle ==
    RouteIdle /\ SamplerIdle /\ DecoderIdle /\ MeasureIdle /\ ClientIdle

BesideRouteIdle ==
    SamplerIdle /\ DecoderIdle /\ MeasureIdle /\ ClientIdle /\ HelpersIdle
BesideSamplerIdle ==
    RouteIdle /\ DecoderIdle /\ MeasureIdle /\ ClientIdle /\ HelpersIdle
BesideDecoderIdle ==
    RouteIdle /\ SamplerIdle /\ MeasureIdle /\ ClientIdle /\ HelpersIdle
BesideMeasureIdle ==
    RouteIdle /\ SamplerIdle /\ DecoderIdle /\ ClientIdle /\ HelpersIdle
BesideExitIdle ==
    BesideHelpersIdle /\ PriceIdle /\ TableIdle /\ SharedIdle /\ MeridianIdle
BesidePriceIdle ==
    BesideHelpersIdle /\ ExitIdle /\ TableIdle /\ SharedIdle /\ MeridianIdle
BesideTableIdle ==
    BesideHelpersIdle /\ ExitIdle /\ PriceIdle /\ SharedIdle /\ MeridianIdle
BesideSharedIdle ==
    BesideHelpersIdle /\ ExitIdle /\ PriceIdle /\ TableIdle /\ MeridianIdle
BesideMeridianIdle ==
    BesideHelpersIdle /\ ExitIdle /\ PriceIdle /\ TableIdle /\ SharedIdle

Init ==
    /\ apiKey \in APIKeys
    /\ rawReq \in RouteRequests
    /\ req = rawReq
    /\ pc = "call"
    /\ waypoints = <<>>
    /\ idx = 0
    /\ results = <<>>
    /\ resp = emptyResponse
    /\ err = NoError
    /\ net = <<>>
    /\ BesideRouteIdle

Next ==
    \/ RouteStart
    \/ FetchSend
    \/ FetchFail
    \/ FetchReturn
    \/ SearchSend
    \/ SearchFail
    \/ SearchReturn

Spec == Init /\ [][Next]_vars

(***************************************************************************)
(* The sampler on its own: sampleWaypoints applied to every coordinate     *)
(* sequence of up to MaxPoints points of a small grid, whose neighbours    *)
(* are closer than epsilon in one axis, and every maxWaypoints around the  *)
(* sequence's length.                                                      *)
(***************************************************************************)
LatValues == {0, 2}
LngValues == {0, 1, 3}
GridPoints == {LatLng(lat, lng) : lat \in LatValues, lng \in LngValues}

\* the path of TestSampleWaypoints, sampled with maxWaypoints = 2
evenSpacingPoints ==
    <<LatLng(0, 0), LatLng(0, UnitsPerDegree), LatLng(0, 2 * UnitsPerDegree)>>

SampleInit ==
    /\ \/ /\ points \in SeqsUpTo(GridPoints, MaxPoints)
          /\ maxWaypoints \in -1..(MaxPoints + 1)
       \/ /\ points = evenSpacingPoints
          /\ maxWaypoints = 2
    /\ sampled = <<>>
    /\ spc = "call"
    /\ BesideSamplerIdle

Sample ==
    /\ spc = "call"
    /\ sampled' = sampleWaypoints(points, maxWaypoints)
    /\ spc' = "done"
    /\ UNCHANGED <<points, maxWaypoints, besideSampler>>

SampleNext == Sample

SampleSpec == SampleInit /\ [][SampleNext]_vars

(***************************************************************************)
(* The decoder on its own: decodePolyline applied to every string of up to *)
(* MaxEncoded bytes of a small alphabet, and to the polyline of            *)
(* TestDecodePolyline.  The alphabet: ' ' and the two bytes of U+00A0      *)
(* (white space), '?', '@', 'A' (bytes that end a varint) and '_', '`'     *)
(* (bytes that continue one).                                              *)
(***************************************************************************)
PolylineBytes == {32, 194, 160, 63, 64, 65, 95, 96}

\* "_p~iF~ps|U_ulLnnqC_mqNvxq`@"
testPolyline ==
    <<95, 112, 126, 105, 70, 126, 112, 115, 124, 85, 95, 117, 108, 76,
      110, 110, 113, 67, 95, 109, 113, 78, 118, 120, 113, 96, 64>>

DecodeInit ==
    /\ decodeIn \in SeqsUpTo(PolylineBytes, MaxEncoded) \cup {testPolyline}
    /\ decodeOut = [err |-> NoError, points |-> <<>>]
    /\ dpc = "call"
    /\ BesideDecoderIdle

Decode ==
    /\ dpc = "call"
    /\ decodeOut' = decodePolyline(decodeIn)
    /\ dpc' = "done"
    /\ UNCHANGED <<decodeIn, besideDecoder>>

DecodeNext == Decode

DecodeSpec == DecodeInit /\ [][DecodeNext]_vars

(***************************************************************************)
(* distanceMeters on its own: called with every pair of points of a small  *)
(* grid around (0, 0), and then with the pair the other way round.         *)
(***************************************************************************)
MeasureLats == {-2, 0, 1}
MeasureLngs == {-3, 0, 4}
MeasurePoints == {LatLng(lat, lng) : lat \in MeasureLats, lng \in MeasureLngs}

MeasureInit ==
    /\ measureA \in MeasurePoints
    /\ measureB \in MeasurePoints
    /\ distanceAB = 0
    /\ distanceBA = 0
    /\ mpc = "call"
    /\ BesideMeasureIdle

Measure ==
    /\ mpc = "call"
    /\ distanceAB' = distanceMeters(measureA, measureB)
    /\ mpc' = "back"
    /\ UNCHANGED <<measureA, measureB, distanceBA, besideMeasure>>

MeasureBack ==
    /\ mpc = "back"
    /\ distanceBA' = distanceMeters(measureB, measureA)
    /\ mpc' = "done"
    /\ UNCHANGED <<measureA, measureB, distanceAB, besideMeasure>>

MeasureNext ==
    \/ Measure
    \/ MeasureBack

MeasureSpec == MeasureInit /\ [][MeasureNext]_vars

(***************************************************************************)
(* The client's operations: one call of Search, Details or Resolve with a  *)
(* request of the sets below, or one call of Route as in Spec.  A float64  *)
(* field takes values at and next to the limits of its range, and NaN.     *)
(***************************************************************************)
ClientKeys == APIKeys \cup {<<>>}

SearchQueries == {<<>>, <<32>>, <<99>>}
SearchLimits == {-1, 0, 1, maxSearchLimit, maxSearchLimit + 1}
MinRatings == {<<>>, <<<<-1, 9, 10>>>>, <<Whole(0)>>, <<Whole(5)>>, <<<<5, 1, 10>>>>, <<NaN>>}
PriceLevelLists == {<<>>, <<0, 4>>, <<-1>>, <<4, 5>>}
FiltersValues ==
    {<<>>} \cup {<<[MinRating |-> m, PriceLevels |-> l]>> : m \in MinRatings, l \in PriceLevelLists}
BiasLats == {<<-maxLat - 1, 1, 2>>, Whole(maxLat), <<maxLat, 1, 2>>, NaN}
BiasLngs == {<<-maxLng - 1, 1, 2>>, Whole(maxLng), NaN}
BiasRadii == {-1, 0, 1}
LocationBiases ==
    {<<>>} \cup {<<[Lat |-> lat, Lng |-> lng, RadiusM |-> r]>> :
                    lat \in BiasLats, lng \in BiasLngs, r \in BiasRadii}
SearchRequests ==
    [Query : SearchQueries, Limit : SearchLimits, Filters : FiltersValues,
     LocationBias : LocationBiases]

\* place ids "", " ", "p", "%", "p%20"
PlaceIDs == {<<>>, <<32>>, <<112>>, <<37>>, <<112, 37, 50, 48>>}
DetailsRequests == [PlaceID : PlaceIDs]

LocationTexts == {<<>>, <<32>>, <<120>>}
ResolveLimits == {-1, 0, 1, maxResolveLimit, maxResolveLimit + 1}
ResolveRequests == [LocationText : LocationTexts, Limit : ResolveLimits]

\* the operation up to the request doRequest sends
beforeSend(key, name, rq) ==
    IF name = "Search" THEN Search(key, rq)
    ELSE IF name = "Details" THEN DetailsWithOptions(key, rq)
    ELSE Resolve(key, rq)

ClientInit ==
    \/ Init
    \/ /\ apiKey \in ClientKeys
       /\ rawReq = <<>>
       /\ req = <<>>
       /\ pc = "off"
       /\ waypoints = <<>>
       /\ idx = 0
       /\ results = <<>>
       /\ resp = emptyResponse
       /\ err = NoError
       /\ net = <<>>
       /\ \/ operation = "Search" /\ opReq \in SearchRequests
          \/ operation = "Details" /\ opReq \in DetailsRequests
          \/ operation = "Resolve" /\ opReq \in ResolveRequests
       /\ cpc = "call"
       /\ SamplerIdle
       /\ DecoderIdle
       /\ MeasureIdle
       /\ HelpersIdle

\* the operation called: it returns an error, or its request is sent
ClientCall ==
    /\ cpc = "call"
    /\ IF beforeSend(apiKey, operation, opReq) # NoError
       THEN /\ err' = beforeSend(apiKey, operation, opReq)
            /\ cpc' = "done"
            /\ UNCHANGED net
       ELSE /\ net' = Append(net, Event(operation, "send", 0, <<>>))
            /\ cpc' = "wait"
            /\ UNCHANGED err
    /\ UNCHANGED <<apiKey, rawReq, req, pc, waypoints, idx, results, resp,
                   operation, opReq, sampleVars, decodeVars, measureVars,
                   helperVars>>

\* the request failed
ClientFail ==
    /\ cpc = "wait"
    /\ net' = Append(net, Event(operation, "fail", 0, <<>>))
    /\ err' = RequestFailed
    /\ cpc' = "done"
    /\ UNCHANGED <<apiKey, rawReq, req, pc, waypoints, idx, results, resp,
                   operation, opReq, sampleVars, decodeVars, measureVars,
                   helperVars>>

\* the answer arrived
ClientReturn ==
    /\ cpc = "wait"
    /\ net' = Append(net, Event(operation, "ok", 0, <<>>))
    /\ cpc' = "done"
    /\ UNCHANGED <<apiKey, rawReq, req, pc, waypoints, idx, results, resp, err,
                   operation, opReq, sampleVars, decodeVars, measureVars,
                   helperVars>>

ClientNext ==
    \/ Next
    \/ ClientCall
    \/ ClientFail
    \/ ClientReturn

ClientSpec == ClientInit /\ [][ClientNext]_vars

(***************************************************************************)
(* The command line's exit code: handleError applied to every error the    *)
(* commands can return, bare or wrapped by fmt.Errorf("...: %w", err).     *)
(* An error is held as its Unwrap chain: the outermost error first, the    *)
(* innermost last; nil is the empty chain.                                 *)
(***************************************************************************)
MaxWraps == 2

\* a layer added by fmt.Errorf with %w
Wrapper == [kind |-> "wrapped", field |-> ""]

RECURSIVE Wrapped(_, _)
Wrapped(e, n) == IF n = 0 THEN <<e>> ELSE <<Wrapper>> \o Wrapped(e, n - 1)

\* errors.As(err, &validation): the first error of the chain that is a
\* ValidationError
RECURSIVE errorsAsValidation(_)
errorsAsValidation(chain) ==
    IF chain = <<>> THEN FALSE
    ELSE IF Head(chain).kind = "ValidationError" THEN TRUE
    ELSE errorsAsValidation(Tail(chain))

\* errors.Is(err, target)
RECURSIVE errorsIs(_, _)
errorsIs(chain, target) ==
    IF chain = <<>> THEN FALSE
    ELSE IF Head(chain) = target THEN TRUE
    ELSE errorsIs(Tail(chain), target)

\* a variant that tells a missing key like any other failure
handleErrorKeyAsFailure(chain) ==
    IF chain = <<>> THEN 0
    ELSE IF errorsAsValidation(chain) THEN 2
    ELSE 1

handleError(chain) ==
    IF chain = <<>> THEN 0
    ELSE IF errorsAsValidation(chain) THEN 2
    ELSE IF errorsIs(chain, ErrMissingAPIKey) THEN 2
    ELSE 1

ValidationFields ==
    {"query", "from", "to", "limit", "radius_m", "max_waypoints", "mode",
     "place_id", "location_text", "location_bias.lat", "location_bias.lng",
     "location_bias.radius_m", "filters.min_rating", "filters.price_levels"}

OtherKinds ==
    {"boom", "request failed", "invalid url", "encode request",
     "no routes returned", "empty route polyline", "empty polyline",
     "invalid polyline", "no route waypoints", "decode route response"}

RootErrors ==
    {ValidationError(f) : f \in ValidationFields}
        \cup {ErrMissingAPIKey} \cup {OtherError(k) : k \in OtherKinds}

CliErrors == {<<>>} \cup {Wrapped(e, n) : e \in RootErrors, n \in 0..MaxWraps}

HandleInit ==
    /\ cliErr \in CliErrors
    /\ exitCode = 0
    /\ hpc = "call"
    /\ BesideExitIdle

HandleError ==
    /\ hpc = "call"
    /\ exitCode' = handleError(cliErr)
    /\ hpc' = "done"
    /\ UNCHANGED <<cliErr, besideExit>>

HandleNext == HandleError

HandleSpec == HandleInit /\ [][HandleNext]_vars

(***************************************************************************)
(* Price levels: priceLevelToEnum looked up for a level of a filter, and   *)
(* mapPriceLevel applied to the name it gives, or to a name an answer of   *)
(* the API carries.                                                        *)
(***************************************************************************)
priceLevelFree == "PRICE_LEVEL_FREE"
priceLevelInexpensive == "PRICE_LEVEL_INEXPENSIVE"
priceLevelModerate == "PRICE_LEVEL_MODERATE"
priceLevelExpensive == "PRICE_LEVEL_EXPENSIVE"
priceLevelVeryExp == "PRICE_LEVEL_VERY_EXPENSIVE"

priceLevelToEnum ==
    (0 :> priceLevelFree) @@ (1 :> priceLevelInexpensive)
        @@ (2 :> priceLevelModerate) @@ (3 :> priceLevelExpensive)
        @@ (4 :> priceLevelVeryExp)

enumToPriceLevel ==
    (priceLevelFree :> 0) @@ (priceLevelInexpensive :> 1)
        @@ (priceLevelModerate :> 2) @@ (priceLevelExpensive :> 3)
        @@ (priceLevelVeryExp :> 4)

\* a variant that returns the address of the zero value for an unknown name
mapPriceLevelZeroValue(value) ==
    IF value = "" THEN <<>>
    ELSE IF value \in DOMAIN enumToPriceLevel THEN <<enumToPriceLevel[value]>>
    ELSE <<0>>

\* nil is <<>>, a pointer to level i is <<i>>
mapPriceLevel(value) ==
    IF value = "" THEN <<>>
    ELSE IF value \in DOMAIN enumToPriceLevel THEN <<enumToPriceLevel[value]>>
    ELSE <<>>

MaxLevel == 6
NoLevel == 0 - 1
Levels == NoLevel..MaxLevel

EnumPrefixes == {"", " ", "PRICE_LEVEL_", "price_level_"}
EnumStems ==
    {"", "FREE", "INEXPENSIVE", "MODERATE", "EXPENSIVE", "VERY_EXPENSIVE",
     "UNSPECIFIED", "UNKNOWN", "free"}
EnumSuffixes == {"", " "}
EnumNames ==
    {a \o b \o c : a \in EnumPrefixes, b \in EnumStems, c \in EnumSuffixes}

PriceInit ==
    /\ \/ priceLevel \in Levels /\ priceEnum = "" /\ ppc = "level"
       \/ priceLevel = NoLevel /\ priceEnum \in EnumNames /\ ppc = "name"
    /\ pricePtr = <<>>
    /\ BesidePriceIdle

\* mapped, ok := priceLevelToEnum[level]: a level that is no key is skipped
LookupEnum ==
    /\ ppc = "level"
    /\ IF priceLevel \in DOMAIN priceLevelToEnum
       THEN priceEnum' = priceLevelToEnum[priceLevel] /\ ppc' = "name"
       ELSE ppc' = "done" /\ UNCHANGED priceEnum
    /\ UNCHANGED <<priceLevel, pricePtr, besidePrice>>

MapPrice ==
    /\ ppc = "name"
    /\ pricePtr' = mapPriceLevel(priceEnum)
    /\ ppc' = "done"
    /\ UNCHANGED <<priceLevel, priceEnum, besidePrice>>

PriceNext ==
    \/ LookupEnum
    \/ MapPrice

PriceSpec == PriceInit /\ [][PriceNext]_vars

(***************************************************************************)
(* The table of cumulative distances and the point at a distance:          *)
(* cumulativeDistances and totalDistance applied to every coordinate       *)
(* sequence of up to MaxPoints grid points, then pointAtCumulative applied *)
(* to the sequence, its table and a target: a target below 0, 0, every     *)
(* entry of the table, half a unit before and after it, and the middle of  *)
(* every segment.  A target is a fraction <<tn, td>>.                      *)
(***************************************************************************)

\* the step pointAtCumulative returned from, with its locals
Path(point, branch, index, segment, fnum, fden) ==
    [point |-> point, branch |-> branch, index |-> index,
     segment |-> segment, fnum |-> fnum, fden |-> fden]

\* pointAtCumulative, with the branch it took and its locals index, segment
\* and fraction = fnum/fden
pointAtCumulativePath(pts, cumulative, tn, td) ==
    IF tn <= 0 THEN Path(At(pts, 0), "first", 0 - 1, 0, 0, 1)
    ELSE LET total == At(cumulative, Len(cumulative) - 1)
         IN  IF tn >= total * td
             THEN Path(At(pts, Len(pts) - 1), "last", 0 - 1, 0, 0, 1)
             ELSE LET index == sortSearch(0, Len(cumulative), cumulative, tn, td)
                  IN  IF index = 0 THEN Path(At(pts, 0), "index 0", index, 0, 0, 1)
                      ELSE LET prev == At(pts, index - 1)
                               next == At(pts, index)
                               segment == At(cumulative, index) - At(cumulative, index - 1)
                               fnum == tn - At(cumulative, index - 1) * td
                               fden == segment * td
                           IN  IF segment <= 0
                               THEN Path(next, "segment end", index, segment, 0, 1)
                               ELSE Path([Lat |-> Interpolate(prev.Lat, next.Lat, fnum, fden),
                                          Lng |-> Interpolate(prev.Lng, next.Lng, fnum, fden)],
                                         "fraction", index, segment, fnum, fden)

TargetDen == 2

Targets(cumulative) ==
    {<<0 - 1, TargetDen>>, <<0, TargetDen>>}
        \cup {<<TargetDen * cumulative[k] + d, TargetDen>> :
                k \in 1..Len(cumulative), d \in {0 - 1, 0, 1}}
        \cup {<<(TargetDen \div 2) * (cumulative[k] + cumulative[k + 1]), TargetDen>> :
                k \in 1..(Len(cumulative) - 1)}

TableInit ==
    /\ tablePoints \in SeqsUpTo(GridPoints, MaxPoints)
    /\ tableTarget = <<0, 1>>
    /\ table = <<>>
    /\ tableTotal = 0
    /\ located = <<>>
    /\ tpc = "call"
    /\ BesideTableIdle

\* cumulative := cumulativeDistances(points), and totalDistance(points)
Tabulate ==
    /\ tpc = "call"
    /\ table' = cumulativeDistances(tablePoints)
    /\ tableTotal' = totalDistance(tablePoints)
    /\ tpc' = "table"
    /\ UNCHANGED <<tablePoints, tableTarget, located, besideTable>>

\* pointAtCumulative(points, cumulative, target), which its callers reach
\* with one point or more
Locate ==
    /\ tpc = "table"
    /\ Len(tablePoints) > 0
    /\ \E target \in Targets(table) :
          /\ tableTarget' = target
          /\ located' = pointAtCumulativePath(tablePoints, table, target[1], target[2])
    /\ tpc' = "done"
    /\ UNCHANGED <<tablePoints, table, tableTotal, besideTable>>

TableNext ==
    \/ Tabulate
    \/ Locate

TableSpec == TableInit /\ [][TableNext]_vars

(***************************************************************************)
(* float64.  A natural number is the sequence of its bits, the least       *)
(* significant first and the most significant, a 1, last; a float64 is a   *)
(* sign, an odd natural m and an exponent e, and stands for m * 2^e (zero  *)
(* is the empty m).  Every operation computes its exact result and rounds  *)
(* it to MantissaBits bits, to nearest, ties to even.  Infinities, NaN and *)
(* subnormal numbers are not held: no value here is near either end of     *)
(* the exponent range.                                                     *)
(***************************************************************************)
MantissaBits == 53

RECURSIVE Bits(_)
Bits(n) == IF n = 0 THEN <<>> ELSE <<n % 2>> \o Bits(n \div 2)

\* a without the zeros after its last 1
Trimmed(a) ==
    IF \A i \in 1..Len(a) : a[i] = 0 THEN <<>>
    ELSE SubSeq(a, 1, CHOOSE i \in 1..Len(a) :
                         a[i] = 1 /\ \A k \in (i + 1)..Len(a) : a[k] = 0)

Zeros(k) == [i \in 1..k |-> 0]

Bit(a, i) == IF i <= Len(a) THEN a[i] ELSE 0

\* the carry into bit i of a + b: the bits of the nearest place below i
\* where a and b agree
Carry(a, b, i) ==
    IF \E j \in 1..(i - 1) :
          /\ Bit(a, j) = 1
          /\ Bit(b, j) = 1
          /\ \A k \in (j + 1)..(i - 1) : Bit(a, k) # Bit(b, k)
    THEN 1 ELSE 0

AddNat(a, b) ==
    LET n == (IF Len(a) > Len(b) THEN Len(a) ELSE Len(b)) + 1
    IN  Trimmed([i \in 1..n |-> (Bit(a, i) + Bit(b, i) + Carry(a, b, i)) % 2])

\* the borrow from bit i of a - b
Borrow(a, b, i) ==
    IF \E j \in 1..(i - 1) :
          /\ Bit(a, j) = 0
          /\ Bit(b, j) = 1
          /\ \A k \in (j + 1)..(i - 1) : Bit(a, k) = Bit(b, k)
    THEN 1 ELSE 0

\* a - b for a >= b
SubNat(a, b) ==
    Trimmed([i \in 1..Len(a) |-> (Bit(a, i) + Bit(b, i) + Borrow(a, b, i)) % 2])

LessNat(a, b) ==
    IF Len(a) # Len(b) THEN Len(a) < Len(b)
    ELSE \E i \in 1..Len(a) :
            /\ a[i] < b[i]
            /\ \A k \in (i + 1)..Len(a) : a[k] = b[k]

\* the sum of a * 2^(i-1) over the bits i of b from lo to hi that are 1
RECURSIVE MulRange(_, _, _, _)
MulRange(a, b, lo, hi) ==
    IF lo = hi THEN (IF b[lo] = 1 THEN Zeros(lo - 1) \o a ELSE <<>>)
    ELSE LET mid == (lo + hi) \div 2
         IN  AddNat(MulRange(a, b, lo, mid), MulRange(a, b, mid + 1, hi))

MulNat(a, b) == IF a = <<>> \/ b = <<>> THEN <<>> ELSE MulRange(a, b, 1, Len(b))

\* long division of a by b # 0 over the bits hi down to lo of a, r being
\* what is left of the bits above hi: the quotient's bits, highest first, and
\* the remainder; the upper half is divided before the lower one
RECURSIVE DivFrom(_, _, _, _, _)
DivFrom(a, b, lo, hi, r) ==
    IF lo = hi
    THEN LET r2 == Trimmed(<<a[lo]>> \o r)
         IN  IF LessNat(r2, b) THEN [q |-> <<0>>, r |-> r2]
             ELSE [q |-> <<1>>, r |-> SubNat(r2, b)]
    ELSE LET mid == (lo + hi) \div 2
             upper == DivFrom(a, b, mid + 1, hi, r)
             lower == DivFrom(a, b, lo, mid, upper.r)
         IN  [q |-> upper.q \o lower.q, r |-> lower.r]

\* the bits of a above the quotient's highest are below b to start with
DivNat(a, b) ==
    IF Len(a) < Len(b) THEN [q |-> <<>>, r |-> a]
    ELSE LET d == DivFrom(a, b, 1, Len(a) - Len(b) + 1,
                          SubSeq(a, Len(a) - Len(b) + 2, Len(a)))
         IN  [q |-> Trimmed([i \in 1..Len(d.q) |-> d.q[Len(d.q) + 1 - i]]),
              r |-> d.r]

\* m * 2^e with the factors 2 of m moved to the exponent
Canon(neg, m, e) ==
    IF \A i \in 1..Len(m) : m[i] = 0 THEN [neg |-> FALSE, m |-> <<>>, e |-> 0]
    ELSE LET low == CHOOSE i \in 1..Len(m) :
                        m[i] = 1 /\ \A k \in 1..(i - 1) : m[k] = 0
         IN  [neg |-> neg, m |-> SubSeq(m, low, Len(m)), e |-> e + low - 1]

\* the float64 nearest to m * 2^e, ties to even
Round(neg, m, e) ==
    IF Len(m) <= MantissaBits THEN Canon(neg, m, e)
    ELSE LET k == Len(m) - MantissaBits
             kept == SubSeq(m, k + 1, Len(m))
             up == /\ m[k] = 1
                   /\ \/ kept[1] = 1
                      \/ \E i \in 1..(k - 1) : m[i] = 1
         IN  Canon(neg, IF up THEN AddNat(kept, <<1>>) ELSE kept, e + k)

\* float64(n) of an int n
fromInt(n) == Canon(n < 0, Bits(Abs(n)), 0)

fneg(x) == IF x.m = <<>> THEN x ELSE [x EXCEPT !.neg = ~x.neg]

fabs(x) == [x EXCEPT !.neg = FALSE]

\* x + y
fadd(x, y) ==
    IF x.m = <<>> THEN y
    ELSE IF y.m = <<>> THEN x
    ELSE LET e == IF x.e < y.e THEN x.e ELSE y.e
             a == Zeros(x.e - e) \o x.m
             b == Zeros(y.e - e) \o y.m
         IN  IF x.neg = y.neg THEN Round(x.neg, AddNat(a, b), e)
             ELSE IF LessNat(a, b) THEN Round(y.neg, SubNat(b, a), e)
             ELSE Round(x.neg, SubNat(a, b), e)

\* x - y
fsub(x, y) == fadd(x, fneg(y))

\* x * y
fmul(x, y) == Round(x.neg # y.neg, MulNat(x.m, y.m), x.e + y.e)

\* x / y for y # 0: the quotient's first 55 bits or more, and one more bit
\* that tells whether anything is left
fdiv(x, y) ==
    IF x.m = <<>> THEN x
    ELSE LET shift == IF MantissaBits + 2 + Len(y.m) > Len(x.m)
                      THEN MantissaBits + 2 + Len(y.m) - Len(x.m) ELSE 0
             d == DivNat(Zeros(shift) \o x.m, y.m)
         IN  Round(x.neg # y.neg, <<IF d.r = <<>> THEN 0 ELSE 1>> \o d.q,
                   x.e - shift - y.e - 1)

\* x < y
fless(x, y) == LET d == fsub(x, y) IN d.m # <<>> /\ d.neg

\* x <= y
fleq(x, y) == ~fless(y, x)

(***************************************************************************)
(* A route along a meridian (every longitude 0) in float64: the points     *)
(* decodePolyline returns for it, the waypoints sampleWaypoints returns    *)
(* for them, and the validation of the location bias of the search Route   *)
(* issues for each waypoint.  The great-circle distance of two points of   *)
(* a meridian grows with the difference of their latitudes, and is held    *)
(* as that difference, in degrees.                                         *)
(***************************************************************************)

\* LatLng{Lat: float64(lat) / routePolylinePrecision, Lng: float64(lng) / ...}
toDegrees64(lat, lng) ==
    [Lat |-> fdiv(fromInt(lat), fromInt(routePolylinePrecision)),
     Lng |-> fdiv(fromInt(lng), fromInt(routePolylinePrecision))]

distanceMeters64(a, b) == fabs(fsub(b.Lat, a.Lat))

RECURSIVE cumulativeFrom64(_, _, _)
cumulativeFrom64(pts, i, distances) ==
    IF i > Len(pts) THEN distances
    ELSE cumulativeFrom64(pts, i + 1,
            Append(distances, fadd(distances[i - 1], distanceMeters64(pts[i - 1], pts[i]))))

cumulativeDistances64(pts) ==
    IF Len(pts) = 0 THEN <<>> ELSE cumulativeFrom64(pts, 2, <<fromInt(0)>>)

RECURSIVE totalFrom64(_, _, _)
totalFrom64(pts, i, total) ==
    IF i > Len(pts) THEN total
    ELSE totalFrom64(pts, i + 1, fadd(total, distanceMeters64(pts[i - 1], pts[i])))

totalDistance64(pts) == IF Len(pts) < 2 THEN fromInt(0) ELSE totalFrom64(pts, 2, fromInt(0))

\* const epsilon = 1e-6
epsilon64 == fdiv(fromInt(1), fromInt(1000000))

samePoint64(a, b) ==
    /\ fless(fabs(fsub(a.Lat, b.Lat)), epsilon64)
    /\ fless(fabs(fsub(a.Lng, b.Lng)), epsilon64)

RECURSIVE sortSearch64(_, _, _, _)
sortSearch64(i, j, cumulative, target) ==
    IF i < j
    THEN LET h == (i + j) \div 2
         IN  IF ~fleq(target, At(cumulative, h))
             THEN sortSearch64(h + 1, j, cumulative, target)
             ELSE sortSearch64(i, h, cumulative, target)
    ELSE i

pointAtCumulative64(pts, cumulative, target) ==
    IF fleq(target, fromInt(0)) THEN At(pts, 0)
    ELSE LET total == At(cumulative, Len(cumulative) - 1)
         IN  IF fleq(total, target) THEN At(pts, Len(pts) - 1)
             ELSE LET index == sortSearch64(0, Len(cumulative), cumulative, target)
                  IN  IF index = 0 THEN At(pts, 0)
                      ELSE LET prev == At(pts, index - 1)
                               next == At(pts, index)
                               segment == fsub(At(cumulative, index), At(cumulative, index - 1))
                           IN  IF fleq(segment, fromInt(0)) THEN next
                               ELSE LET fraction == fdiv(fsub(target, At(cumulative, index - 1)), segment)
                                    IN  [Lat |-> fadd(prev.Lat, fmul(fsub(next.Lat, prev.Lat), fraction)),
                                         Lng |-> fadd(prev.Lng, fmul(fsub(next.Lng, prev.Lng), fraction))]

pointAtDistance64(pts, target) ==
    IF Len(pts) = 0 THEN toDegrees64(0, 0)
    ELSE pointAtCumulative64(pts, cumulativeDistances64(pts), target)

RECURSIVE uniqueFrom64(_, _, _)
uniqueFrom64(pts, i, result) ==
    IF i > Len(pts) THEN result
    ELSE IF Len(result) = 0 \/ ~samePoint64(result[Len(result)], pts[i])
    THEN uniqueFrom64(pts, i + 1, Append(result, pts[i]))
    ELSE uniqueFrom64(pts, i + 1, result)

uniqueWaypoints64(pts) == uniqueFrom64(pts, 1, <<>>)

RECURSIVE sampleLoop64(_, _, _, _, _, _)
sampleLoop64(pts, cumulative, spacing, n, i, out) ==
    IF ~(i < n) THEN out
    ELSE LET point == pointAtCumulative64(pts, cumulative, fmul(spacing, fromInt(i)))
         IN  IF Len(out) = 0 \/ ~samePoint64(out[Len(out)], point)
             THEN sampleLoop64(pts, cumulative, spacing, n, i + 1, Append(out, point))
             ELSE sampleLoop64(pts, cumulative, spacing, n, i + 1, out)

sampleWaypoints64(pts, n) ==
    IF Len(pts) = 0 \/ n <= 0 THEN <<>>
    ELSE IF Len(pts) = 1 THEN <<At(pts, 0)>>
    ELSE IF n = 1
    THEN <<pointAtDistance64(pts, fdiv(totalDistance64(pts), fromInt(2)))>>
    ELSE IF n >= Len(pts) THEN uniqueWaypoints64(pts)
    ELSE LET cumulative == cumulativeDistances64(pts)
             total == At(cumulative, Len(cumulative) - 1)
         IN  IF total = fromInt(0) THEN <<At(pts, 0)>>
             ELSE sampleLoop64(pts, cumulative, fdiv(total, fromInt(n - 1)), n, 0, <<>>)

validateLocationBias64(bias) ==
    IF bias = <<>> THEN NoError
    ELSE IF bias[1].RadiusM <= 0 THEN ValidationError("location_bias.radius_m")
    ELSE IF fless(bias[1].Lat, fromInt(0 - 90)) \/ fless(fromInt(90), bias[1].Lat)
         THEN ValidationError("location_bias.lat")
    ELSE IF fless(bias[1].Lng, fromInt(0 - 180)) \/ fless(fromInt(180), bias[1].Lng)
         THEN ValidationError("location_bias.lng")
    ELSE NoError

\* the loop of Route over the waypoints, up to the first search refused
RECURSIVE searchesFrom64(_, _, _)
searchesFrom64(wps, i, radius) ==
    IF i > Len(wps) THEN NoError
    ELSE LET e == validateLocationBias64(
                      <<[Lat |-> wps[i].Lat, Lng |-> wps[i].Lng, RadiusM |-> radius]>>)
         IN  IF e # NoError THEN e ELSE searchesFrom64(wps, i + 1, radius)

MaxMeridianPoints == 3

\* -89.96012, 0, 0.00001, 89.99999 and 90 degrees
MeridianLats == {0 - 8996012, 0, 1, 8999999, 9000000}

MeridianInit ==
    /\ routeE5 \in SeqsUpTo(MeridianLats, MaxMeridianPoints) \ {<<>>}
    /\ wanted \in 1..2
    /\ points64 = <<>>
    /\ waypoints64 = <<>>
    /\ biasErr = NoError
    /\ fpc = "decode"
    /\ BesideMeridianIdle

\* decodePolyline's float64 pairs for the route
MeridianDecode ==
    /\ fpc = "decode"
    /\ points64' = [i \in 1..Len(routeE5) |-> toDegrees64(routeE5[i], 0)]
    /\ fpc' = "sample"
    /\ UNCHANGED <<routeE5, wanted, waypoints64, biasErr, besideMeridian>>

\* waypoints := sampleWaypoints(points, req.MaxWaypoints)
MeridianSample ==
    /\ fpc = "sample"
    /\ waypoints64' = sampleWaypoints64(points64, wanted)
    /\ fpc' = "search"
    /\ UNCHANGED <<routeE5, wanted, points64, biasErr, besideMeridian>>

\* the searches around the waypoints, as far as validateLocationBias
MeridianSearch ==
    /\ fpc = "search"
    /\ biasErr' = searchesFrom64(waypoints64, 1, defaultRouteRadiusM)
    /\ fpc' = "done"
    /\ UNCHANGED <<routeE5, wanted, points64, waypoints64, besideMeridian>>

MeridianNext ==
    \/ MeridianDecode
    \/ MeridianSample
    \/ MeridianSearch

MeridianSpec == MeridianInit /\ [][MeridianNext]_vars

(***************************************************************************)
(* Concurrent callers.  Two goroutines, each in one call of                *)
(* sampleWaypoints, cumulativeDistances, decodePolyline or distanceMeters, *)
(* on the same slice of points and the same string.  heap holds the        *)
(* backing arrays: the one of the callers' slice and one for each          *)
(* goroutine's allocations; a slice is an array and a length.  A step is   *)
(* a call's entry, up to its first loop, or one iteration of a loop.       *)
(***************************************************************************)
MaxShared == 3

Goroutines == {1, 2}

InputArray == 1

OwnArray(g) == g + 1

\* (0,0) and (0,1) are closer than epsilon
SharedPoints == {LatLng(0, 0), LatLng(0, 1), LatLng(2, 0)}

SharedCalls ==
    [fn : {"sampleWaypoints"}, n : 1..MaxShared]
        \cup [fn : {"cumulativeDistances", "decodePolyline", "distanceMeters"}, n : {0}]

nilSlice == [arr |-> 0, len |-> 0]

\* the elements of the slice s
SliceOf(h, s) == IF s.arr = 0 THEN <<>> ELSE SubSeq(h[s.arr], 1, s.len)

\* variant of makeResult that reuses the input's array: points[:0]
makeResultInPlace(input, own) == input

\* make([]LatLng, 0, n): the array a result is built in
makeResult(input, own) == own

\* append(s, x), within the capacity of s
appendTo(h, s, x) ==
    [h EXCEPT ![s.arr] = IF s.len < Len(@) THEN [@ EXCEPT ![s.len + 1] = x]
                         ELSE Append(@, x)]

\* the other goroutine is inside a call
Overlaps(g) == \E o \in Goroutines \ {g} : calls[o].pc \notin {"call", "done"}

Returned(c, out, value) ==
    [c EXCEPT !.pc = "done", !.out = out, !.value = value]

SharedInit ==
    /\ \E pts \in SeqsUpTo(SharedPoints, MaxShared) \ {<<>>} :
          /\ given = [points |-> pts, encoded |-> testPolyline]
          /\ heap = <<pts, <<>>, <<>>>>
    /\ \E c \in [Goroutines -> SharedCalls] :
          calls = [g \in Goroutines |->
                      [fn |-> c[g].fn, n |-> c[g].n, pc |-> "call", i |-> 0,
                       out |-> nilSlice, table |-> <<>>, value |-> <<>>,
                       met |-> FALSE]]
    /\ BesideSharedIdle

\* sampleWaypoints up to the loop of uniqueWaypoints or its own
EnterSample(g) ==
    LET c == calls[g]
        pts == heap[InputArray]
        own == [arr |-> OwnArray(g), len |-> 1]
    IN  /\ c.pc = "call"
        /\ c.fn = "sampleWaypoints"
        /\ IF nothingToSample(pts, c.n)
           THEN /\ calls' = [calls EXCEPT ![g] = Returned(c, nilSlice, <<>>)]
                /\ heap' = heap
           ELSE IF Len(pts) = 1
           THEN /\ calls' = [calls EXCEPT ![g] = Returned(c, own, <<>>)]
                /\ heap' = [heap EXCEPT ![OwnArray(g)] = <<pts[1]>>]
           ELSE IF c.n = 1
           THEN /\ calls' = [calls EXCEPT ![g] = Returned(c, own, <<>>)]
                /\ heap' = [heap EXCEPT ![OwnArray(g)] =
                               <<pointAtDistance(pts, totalDistance(pts), 2)>>]
           ELSE IF c.n >= Len(pts)
           THEN /\ calls' = [calls EXCEPT ![g] =
                               [c EXCEPT !.pc = "unique", !.i = 1,
                                         !.out = [arr |-> makeResult(InputArray, OwnArray(g)),
                                                  len |-> 0]]]
                /\ heap' = heap
           ELSE LET cumulative == cumulativeDistances(pts)
                IN  IF At(cumulative, Len(cumulative) - 1) = 0
                    THEN /\ calls' = [calls EXCEPT ![g] = Returned(c, own, <<>>)]
                         /\ heap' = [heap EXCEPT ![OwnArray(g)] = <<pts[1]>>]
                    ELSE /\ calls' = [calls EXCEPT ![g] =
                                        [c EXCEPT !.pc = "sample", !.i = 0,
                                                  !.table = cumulative,
                                                  !.out = [arr |-> makeResult(InputArray, OwnArray(g)),
                                                           len |-> 0]]]
                         /\ heap' = heap
        /\ UNCHANGED <<given, besideShared>>

\* the slice after the loop body's conditional append of point
Kept(c, point) ==
    IF c.out.len = 0 \/ ~samePoint(heap[c.out.arr][c.out.len], point)
    THEN [c.out EXCEPT !.len = @ + 1]
    ELSE c.out

\* one iteration of the loop of uniqueWaypoints, or its return
UniqueStep(g) ==
    LET c == calls[g]
    IN  /\ c.pc = "unique"
        /\ IF c.i > Len(given.points)
           THEN /\ calls' = [calls EXCEPT ![g] = [c EXCEPT !.pc = "done"]]
                /\ heap' = heap
           ELSE LET point == heap[InputArray][c.i]
                    out == Kept(c, point)
                IN  /\ calls' = [calls EXCEPT ![g] =
                                    [c EXCEPT !.i = @ + 1, !.out = out,
                                              !.met = @ \/ Overlaps(g)]]
                    /\ heap' = IF out = c.out THEN heap
                               ELSE appendTo(heap, c.out, point)
        /\ UNCHANGED <<given, besideShared>>

\* one iteration of the loop of sampleWaypoints, or its return
SampleStep(g) ==
    LET c == calls[g]
    IN  /\ c.pc = "sample"
        /\ IF ~(c.i < c.n)
           THEN /\ calls' = [calls EXCEPT ![g] = [c EXCEPT !.pc = "done"]]
                /\ heap' = heap
           ELSE LET total == At(c.table, Len(c.table) - 1)
                    point == pointAtCumulative(heap[InputArray], c.table,
                                               total * c.i, c.n - 1)
                    out == Kept(c, point)
                IN  /\ calls' = [calls EXCEPT ![g] =
                                    [c EXCEPT !.i = @ + 1, !.out = out,
                                              !.met = @ \/ Overlaps(g)]]
                    /\ heap' = IF out = c.out THEN heap
                               ELSE appendTo(heap, c.out, point)
        /\ UNCHANGED <<given, besideShared>>

\* distances := make([]float64, len(points))
EnterTable(g) ==
    LET c == calls[g]
        n == Len(given.points)
    IN  /\ c.pc = "call"
        /\ c.fn = "cumulativeDistances"
        /\ calls' = [calls EXCEPT ![g] =
                        [c EXCEPT !.pc = "table", !.i = 1,
                                  !.out = [arr |-> OwnArray(g), len |-> n]]]
        /\ heap' = [heap EXCEPT ![OwnArray(g)] = [k \in 1..n |-> 0]]
        /\ UNCHANGED <<given, besideShared>>

\* one iteration of the loop of cumulativeDistances, or its return
TableStep(g) ==
    LET c == calls[g]
        pts == heap[InputArray]
    IN  /\ c.pc = "table"
        /\ IF ~(c.i < Len(given.points))
           THEN /\ calls' = [calls EXCEPT ![g] = [c EXCEPT !.pc = "done"]]
                /\ heap' = heap
           ELSE /\ calls' = [calls EXCEPT ![g] =
                                [c EXCEPT !.i = @ + 1, !.met = @ \/ Overlaps(g)]]
                /\ heap' = [heap EXCEPT ![c.out.arr][c.i + 1] =
                               At(heap[c.out.arr], c.i - 1)
                                   + distanceMeters(At(pts, c.i - 1), At(pts, c.i))]
        /\ UNCHANGED <<given, besideShared>>

\* decodePolyline(encoded)
CallDecode(g) ==
    LET c == calls[g]
    IN  /\ c.pc = "call"
        /\ c.fn = "decodePolyline"
        /\ calls' = [calls EXCEPT ![g] =
                        [Returned(c, nilSlice, decodePolyline(given.encoded))
                            EXCEPT !.met = Overlaps(g)]]
        /\ UNCHANGED <<heap, given, besideShared>>

\* distanceMeters(points[0], points[len(points)-1])
CallDistance(g) ==
    LET c == calls[g]
        pts == heap[InputArray]
    IN  /\ c.pc = "call"
        /\ c.fn = "distanceMeters"
        /\ calls' = [calls EXCEPT ![g] =
                        [Returned(c, nilSlice,
                                  distanceMeters(At(pts, 0), At(pts, Len(given.points) - 1)))
                            EXCEPT !.met = Overlaps(g)]]
        /\ UNCHANGED <<heap, given, besideShared>>

SharedNext ==
    \E g \in Goroutines :
        \/ EnterSample(g)
        \/ UniqueStep(g)
        \/ SampleStep(g)
        \/ EnterTable(g)
        \/ TableStep(g)
        \/ CallDecode(g)
        \/ CallDistance(g)

SharedSpec == SharedInit /\ [][SharedNext]_vars

(***************************************************************************)
(* Properties of Client.Route (under Spec).                                *)
(***************************************************************************)
Sent(op) == {p \in 1..Len(net) : net[p].op = op /\ net[p].ev = "send"}
SentFor(wp) == {p \in Sent("search") : net[p].wp = wp}
FailedSearches == {p \in 1..Len(net) : net[p].op = "search" /\ net[p].ev = "fail"}
SearchAnswers == SelectSeq(net, LAMBDA e : e.op = "search" /\ e.ev = "ok")
InFlight ==
    Cardinality({p \in 1..Len(net) : net[p].ev = "send"})
        - Cardinality({p \in 1..Len(net) : net[p].ev # "send"})
Succeeded == pc = "done" /\ err = NoError
Failed == pc = "done" /\ err # NoError

\* C1: Route is fail-fast.  When the search of waypoint k fails, the call has
\* returned that error with an empty response (nothing of the entries gathered
\* for the waypoints before k), the failed exchange is the last one of the call
\* and no search was sent for a waypoint after k; likewise when the search of
\* waypoint k is refused before it is sent.
C1_FailFast ==
    /\ \A p \in FailedSearches :
        /\ pc = "done"
        /\ err = RequestFailed
        /\ resp = emptyResponse
        /\ p = Len(net)
        /\ \A q \in Sent("search") : net[q].wp <= net[p].wp
    /\ Failed => resp = emptyResponse
    /\ (Failed /\ waypoints # <<>>) => \A q \in Sent("search") : net[q].wp <= idx

\* the search of the second of at least three waypoints failed after the first
\* one had brought an entry
C1_Witness ==
    /\ Failed
    /\ Len(waypoints) >= 3
    /\ results # <<>>
    /\ \E p \in FailedSearches : net[p].wp = 2

\* the request, after defaults, breaks one of the seven constraints (written
\* out from the claim)
BlankString(str) == \A i \in 1..Len(str) : str[i] \in {9, 10, 11, 12, 13, 32}
BreaksAConstraint(r) ==
    \/ BlankString(r.Query)
    \/ BlankString(r.From)
    \/ BlankString(r.To)
    \/ r.Limit \notin 1..20
    \/ r.RadiusM <= 0
    \/ r.MaxWaypoints \notin 1..20
    \/ r.Mode \notin {travelModeDrive, travelModeWalk, travelModeBicycle,
                      travelModeTwoWheeler, travelModeTransit}

\* C2: a Route request that breaks a constraint after defaults fails with a
\* ValidationError, and neither a routes request nor a search request is sent.
C2_InvalidRequestRejected ==
    (pc # "call" /\ BreaksAConstraint(req)) =>
        /\ pc = "done"
        /\ err.kind = "ValidationError"
        /\ resp = emptyResponse
        /\ net = <<>>

\* mode "FLY" with every other field valid
C2_Witness ==
    /\ pc = "done"
    /\ req.Mode = <<70, 76, 89>>
    /\ ~BreaksAConstraint([req EXCEPT !.Mode = travelModeDrive])
    /\ err = ValidationError("mode")
    /\ net = <<>>

\* C3: whenever Route returns a ValidationError, no routes request and no
\* search request has been sent during the call.
C3_ValidationErrorBeforeNetwork ==
    (pc = "done" /\ err.kind = "ValidationError") => net = <<>>

\* C4: the searches go out one at a time in waypoint order: the exchange just
\* before the search of waypoint 1 is the routes answer, the one just before
\* the search of waypoint i + 1 is the good answer to the search of waypoint i,
\* and at most one request is unanswered at any time.
C4_SearchesSequential ==
    /\ InFlight \in {0, 1}
    /\ \A p \in Sent("search") :
        /\ p > 1
        /\ net[p - 1].ev = "ok"
        /\ IF net[p].wp = 1 THEN net[p - 1].op = "fetch"
           ELSE net[p - 1].op = "search" /\ net[p - 1].wp = net[p].wp - 1

\* the third search is in flight
C4_Witness ==
    /\ pc = "search_wait"
    /\ idx = 3
    /\ InFlight = 1
    /\ Cardinality(Sent("search")) = 3

\* C5: the routes request is sent at most once and each waypoint is searched
\* at most once; a successful call has sent exactly one routes request and
\* exactly one search per sampled waypoint, and nothing else.
C5_OneCallEach ==
    /\ Cardinality(Sent("fetch")) <= 1
    /\ \A wp \in 1..Len(waypoints) : Cardinality(SentFor(wp)) <= 1
    /\ \A p \in Sent("search") : net[p].wp \in 1..Len(waypoints)
    /\ Succeeded =>
        /\ Cardinality(Sent("fetch")) = 1
        /\ \A wp \in 1..Len(waypoints) : Cardinality(SentFor(wp)) = 1
        /\ Len(net) = 2 + 2 * Len(waypoints)

\* a successful call over three waypoints
C5_Witness ==
    /\ Succeeded
    /\ Len(waypoints) = 3
    /\ Cardinality(Sent("search")) = 3

\* C6: the response of a successful call has one entry per sampled waypoint,
\* in their order; entry i carries waypoint i and the places of the i-th
\* search answer.
C6_ResponseMatchesWaypoints ==
    Succeeded =>
        /\ Len(resp.Waypoints) = Len(waypoints)
        /\ Len(SearchAnswers) = Len(waypoints)
        /\ \A i \in 1..Len(waypoints) :
            /\ resp.Waypoints[i].Location = waypoints[i]
            /\ resp.Waypoints[i].Results = SearchAnswers[i].body

\* a successful call whose first two searches brought different places
C6_Witness ==
    /\ Succeeded
    /\ Len(waypoints) >= 2
    /\ waypoints[1] # waypoints[2]
    /\ resp.Waypoints[1].Results # resp.Waypoints[2].Results

RoutesAnswers == {p \in 1..Len(net) : net[p].op = "fetch" /\ net[p].ev = "ok"}

\* C7: a routes answer with no route, or whose first route has an empty or
\* blank polyline, makes Route fail with its route-not-found error before any
\* search; otherwise the waypoints are those sampled from the first route's
\* polyline, whatever routes follow it.
C7_FirstRouteOnly ==
    \A p \in RoutesAnswers :
        LET routes == net[p].body
        IN  IF Len(routes) = 0 \/ BlankString(routes[1])
            THEN /\ pc = "done"
                 /\ err \in {OtherError("no routes returned"),
                             OtherError("empty route polyline")}
                 /\ resp = emptyResponse
                 /\ Sent("search") = {}
            ELSE LET decoded == decodePolyline(TrimSpace(routes[1]))
                 IN  decoded.err = NoError =>
                        waypoints = sampleWaypoints(decoded.points, req.MaxWaypoints)

\* the first route's polyline is empty and a second, usable route follows
C7_Witness ==
    /\ pc = "done"
    /\ err = OtherError("empty route polyline")
    /\ \E p \in RoutesAnswers :
        /\ Len(net[p].body) = 2
        /\ net[p].body[1] = <<>>
        /\ decodePolyline(net[p].body[2]).err = NoError

\* C8 as stated: a blank mode becomes "DRIVE", any other mode is upper-cased;
\* a zero limit, radius or max-waypoint count becomes 5, 1000, 5, and any
\* other value is kept.
C8_DefaultsAsStated ==
    pc # "call" =>
        /\ req.Mode = IF BlankString(rawReq.Mode) THEN travelModeDrive
                      ELSE ToUpper(rawReq.Mode)
        /\ req.Limit = IF rawReq.Limit = 0 THEN 5 ELSE rawReq.Limit
        /\ req.RadiusM = IF rawReq.RadiusM = 0 THEN 1000 ELSE rawReq.RadiusM
        /\ req.MaxWaypoints = IF rawReq.MaxWaypoints = 0 THEN 5 ELSE rawReq.MaxWaypoints

\* C8, amended: a blank mode becomes "DRIVE", any other mode is trimmed of its
\* surrounding white space and upper-cased; the numbers as stated.
C8_DefaultsTrimmed ==
    pc # "call" =>
        /\ req.Mode = IF BlankString(rawReq.Mode) THEN travelModeDrive
                      ELSE ToUpper(TrimSpace(rawReq.Mode))
        /\ req.Limit = IF rawReq.Limit = 0 THEN 5 ELSE rawReq.Limit
        /\ req.RadiusM = IF rawReq.RadiusM = 0 THEN 1000 ELSE rawReq.RadiusM
        /\ req.MaxWaypoints = IF rawReq.MaxWaypoints = 0 THEN 5 ELSE rawReq.MaxWaypoints

\* " Transit " became "TRANSIT", a zero limit 5, and a negative radius stayed
C8_Witness ==
    /\ pc # "call"
    /\ rawReq.Mode = <<32, 84, 114, 97, 110, 115, 105, 116, 32>>
    /\ req.Mode = travelModeTransit
    /\ rawReq.Limit = 0
    /\ req.Limit = 5
    /\ rawReq.RadiusM = -1
    /\ req.RadiusM = -1

(***************************************************************************)
(* Properties of sampleWaypoints (under SampleSpec).                       *)
(***************************************************************************)
\* C9: sampleWaypoints returns nothing for an empty sequence or a
\* maxWaypoints <= 0, and otherwise between 1 and maxWaypoints points.
C9_SampleSize ==
    spc = "done" =>
        IF Len(points) = 0 \/ maxWaypoints <= 0 THEN sampled = <<>>
        ELSE Len(sampled) >= 1 /\ Len(sampled) <= maxWaypoints

\* fewer waypoints asked for than points, and the bound is met
C9_Witness ==
    /\ spc = "done"
    /\ maxWaypoints >= 2
    /\ maxWaypoints < Len(points)
    /\ Len(sampled) = maxWaypoints

\* C10: no two adjacent returned waypoints are the same point under the
\* epsilon rule: their latitudes or their longitudes differ by 1e-6 or more.
C10_NoAdjacentSame ==
    spc = "done" =>
        \A i \in 1..(Len(sampled) - 1) :
            \/ ~AbsDiffLess(sampled[i].Lat, sampled[i + 1].Lat, UnitsPerDegree \div 1000000)
            \/ ~AbsDiffLess(sampled[i].Lng, sampled[i + 1].Lng, UnitsPerDegree \div 1000000)

\* a point closer than epsilon to its predecessor, yet different, was dropped
\* and at least two waypoints are returned
C10_Witness ==
    /\ spc = "done"
    /\ Len(sampled) >= 2
    /\ Len(sampled) < Len(points)
    /\ \E i \in 1..(Len(points) - 1) :
        /\ points[i] # points[i + 1]
        /\ AbsDiffLess(points[i].Lat, points[i + 1].Lat, UnitsPerDegree \div 1000000)
        /\ AbsDiffLess(points[i].Lng, points[i + 1].Lng, UnitsPerDegree \div 1000000)
        /\ \A j \in 1..Len(sampled) : sampled[j] # points[i + 1]

(***************************************************************************)
(* Arc lengths along the path, for the properties of the sampler.  An arc  *)
(* length is a fraction <<n, d>> in lowest terms (d > 0) of the distance   *)
(* unit; the path passes through p at arc length s when p lies on a        *)
(* segment, the part t of the segment's length after the segment's start,  *)
(* and s is the cumulative distance of the start plus t times the length.  *)
(***************************************************************************)
Rat(n, d) == LET g == GCD(Abs(n), d) IN <<n \div g, d \div g>>

Improper(x) == <<x[1] * x[3] + x[2], x[3]>>

RatDist(s, t) == Rat(Abs(s[1] * t[2] - t[1] * s[2]), s[2] * t[2])

\* the t with x = a1 + d1 * t, for a whole a1, a whole d1 # 0, a fraction x
Param(a1, d1, x) ==
    IF d1 > 0 THEN Rat(x[1] - a1 * x[2], d1 * x[2])
    ELSE Rat(a1 * x[2] - x[1], (-d1) * x[2])

ArcsOnSegment(pts, cum, k, p) ==
    LET a == pts[k]
        b == pts[k + 1]
        seg == cum[k + 1] - cum[k]
        x == Improper(p.Lat)
        y == Improper(p.Lng)
        dlat == b.Lat[1] - a.Lat[1]
        dlng == b.Lng[1] - a.Lng[1]
    IN  IF dlat = 0 /\ dlng = 0
        THEN IF p = a THEN {<<cum[k], 1>>} ELSE {}
        ELSE LET t == IF dlat # 0 THEN Param(a.Lat[1], dlat, x)
                      ELSE Param(a.Lng[1], dlng, y)
             IN  IF /\ t[1] >= 0
                    /\ t[1] <= t[2]
                    /\ x[1] * t[2] = (a.Lat[1] * t[2] + dlat * t[1]) * x[2]
                    /\ y[1] * t[2] = (a.Lng[1] * t[2] + dlng * t[1]) * y[2]
                 THEN {Rat(cum[k] * t[2] + seg * t[1], t[2])}
                 ELSE {}

\* every arc length at which the path pts passes through p
ArcsOf(pts, p) ==
    UNION {ArcsOnSegment(pts, cumulativeDistances(pts), k, p) : k \in 1..(Len(pts) - 1)}

\* the waypoints from the j-th on are each gap away from their predecessor
RECURSIVE EvenFrom(_, _, _)
EvenFrom(j, prev, gap) ==
    IF j > Len(sampled) THEN TRUE
    ELSE \E s \in ArcsOf(points, sampled[j]) :
            RatDist(s, prev) = gap /\ EvenFrom(j + 1, s, gap)

RECURSIVE OnTargets(_, _)
OnTargets(j, i) ==
    IF j > Len(sampled) THEN TRUE
    ELSE \E t \in i..(IF j = 1 THEN 0 ELSE maxWaypoints - 1) :
            /\ Rat(totalDistance(points) * t, maxWaypoints - 1) \in ArcsOf(points, sampled[j])
            /\ OnTargets(j + 1, t + 1)

RECURSIVE SegmentOf(_, _, _, _)
SegmentOf(cum, k, sn, sd) ==
    IF k >= Len(cum) - 1 \/ cum[k + 1] * sd >= sn THEN k
    ELSE SegmentOf(cum, k + 1, sn, sd)

\* the point of the path pts (two points or more) located at the cumulative
\* arc length sn/sd, 0 <= sn/sd <= total
PointAtArc(pts, sn, sd) ==
    LET cum == cumulativeDistances(pts)
        k == SegmentOf(cum, 1, sn, sd)
        a == pts[k]
        b == pts[k + 1]
    IN  IF sn >= cum[k + 1] * sd THEN b
        ELSE [Lat |-> Mixed(a.Lat[1], (b.Lat[1] - a.Lat[1]) * (sn - cum[k] * sd),
                            (cum[k + 1] - cum[k]) * sd),
              Lng |-> Mixed(a.Lng[1], (b.Lng[1] - a.Lng[1]) * (sn - cum[k] * sd),
                            (cum[k + 1] - cum[k]) * sd)]

\* both coordinates closer than 1e-6 degree
Near(a, b) ==
    /\ AbsDiffLess(a.Lat, b.Lat, UnitsPerDegree \div 1000000)
    /\ AbsDiffLess(a.Lng, b.Lng, UnitsPerDegree \div 1000000)

\* q without every point that is near the last point before it that stayed
RECURSIVE Dedupe(_, _, _)
Dedupe(q, i, kept) ==
    IF i > Len(q) THEN kept
    ELSE IF Len(kept) > 0 /\ Near(kept[Len(kept)], q[i]) THEN Dedupe(q, i + 1, kept)
    ELSE Dedupe(q, i + 1, Append(kept, q[i]))

\* C12: with 2 <= maxWaypoints < len(points), sampleWaypoints returns the
\* adjacent-deduplicated list of the points located at the cumulative arc
\* lengths i * total / (maxWaypoints - 1), i = 0..maxWaypoints-1, and just
\* the first point when total is 0; (0,0),(0,1),(0,2) sampled with
\* maxWaypoints = 2 gives (0,0),(0,2).
C12_SamplesAtTargets ==
    /\ (spc = "done" /\ maxWaypoints >= 2 /\ maxWaypoints < Len(points)) =>
            sampled =
                IF totalDistance(points) = 0 THEN <<points[1]>>
                ELSE Dedupe([i \in 1..maxWaypoints |->
                                PointAtArc(points, totalDistance(points) * (i - 1),
                                           maxWaypoints - 1)], 1, <<>>)
    /\ (spc = "done" /\ points = evenSpacingPoints /\ maxWaypoints = 2) =>
            sampled = <<LatLng(0, 0), LatLng(0, 2 * UnitsPerDegree)>>

\* a sample between two input points is returned and another sample is
\* dropped as a duplicate
C12_Witness ==
    /\ spc = "done"
    /\ maxWaypoints >= 2
    /\ maxWaypoints < Len(points)
    /\ Len(sampled) >= 2
    /\ Len(sampled) < maxWaypoints
    /\ \E j \in 1..Len(sampled) : \A i \in 1..Len(points) : sampled[j] # points[i]

\* the path of TestSampleWaypoints was sampled
C12_TestReached ==
    spc = "done" /\ points = evenSpacingPoints /\ Len(sampled) = 2

\* C13: with maxWaypoints >= len(points) >= 2, sampleWaypoints returns the
\* input points, starting with the first, without each point that is the
\* same (epsilon rule) as the last point kept before it: every returned
\* waypoint is an input point, and a point equal to an earlier kept point
\* that is not the last kept one stays.
C13_DedupedInput ==
    (spc = "done" /\ Len(points) >= 2 /\ maxWaypoints >= Len(points)) =>
        /\ sampled = Dedupe(points, 1, <<>>)
        /\ sampled[1] = points[1]
        /\ \A j \in 1..Len(sampled) : \E i \in 1..Len(points) : sampled[j] = points[i]

\* a point was dropped, and a point that came back to an earlier kept point
\* was returned a second time
C13_Witness ==
    /\ spc = "done"
    /\ maxWaypoints >= Len(points)
    /\ Len(sampled) >= 3
    /\ Len(sampled) < Len(points)
    /\ \E i, j \in 1..Len(sampled) : i + 1 < j /\ sampled[i] = sampled[j]

\* C14: with maxWaypoints = 1 and two points or more, sampleWaypoints
\* returns exactly one point, the point of the path at half its total arc
\* length, interpolated linearly between the two input points around it.
C14_Midpoint ==
    (spc = "done" /\ Len(points) >= 2 /\ maxWaypoints = 1) =>
        /\ sampled = <<PointAtArc(points, totalDistance(points), 2)>>
        /\ Rat(totalDistance(points), 2) \in ArcsOf(points, sampled[1])

\* the midpoint of a path of three points or more lies between two of them
C14_Witness ==
    /\ spc = "done"
    /\ maxWaypoints = 1
    /\ Len(points) >= 3
    /\ Len(sampled) = 1
    /\ \A i \in 1..Len(points) : sampled[1] # points[i]

\* C15: for a sequence of one point and every maxWaypoints >= 1,
\* sampleWaypoints returns exactly that point.
C15_SinglePoint ==
    (spc = "done" /\ Len(points) = 1 /\ maxWaypoints >= 1) =>
        sampled = <<points[1]>>

\* one point, more waypoints asked for
C15_Witness ==
    /\ spc = "done"
    /\ Len(points) = 1
    /\ maxWaypoints >= 2
    /\ sampled = <<points[1]>>

(***************************************************************************)
(* Properties of decodePolyline (under DecodeSpec).                        *)
(***************************************************************************)
\* a byte with the continuation bit clear: it ends a varint
EndsVarint(c) == c - 63 < 32

\* the string's last byte asks for another byte
EndsMidVarint(s) == s # <<>> /\ ~EndsVarint(s[Len(s)])

\* the number of varints of s that are complete
CompleteVarints(s) == Cardinality({i \in 1..Len(s) : EndsVarint(s[i])})

\* the string stops before a latitude's longitude is complete
EndsMidPair(s) == s # <<>> /\ (EndsMidVarint(s) \/ CompleteVarints(s) % 2 = 1)

\* white space and nothing else: ASCII white space, U+0085, U+00A0
RECURSIVE WhiteSpaceOnly(_)
WhiteSpaceOnly(s) ==
    \/ s = <<>>
    \/ s[1] \in {9, 10, 11, 12, 13, 32} /\ WhiteSpaceOnly(Tail(s))
    \/ /\ Len(s) >= 2
       /\ s[1] = 194
       /\ s[2] \in {133, 160}
       /\ WhiteSpaceOnly(SubSeq(s, 3, Len(s)))

FailedAsEmpty == decodeOut = [err |-> [kind |-> "empty polyline", field |-> ""], points |-> <<>>]
FailedAsMalformed == decodeOut = [err |-> [kind |-> "invalid polyline", field |-> ""], points |-> <<>>]

\* C16 as stated: decodePolyline fails as empty on the empty string and as
\* malformed on every string whose last byte has the continuation bit set,
\* and returns no points in both cases.
C16_DecodeFailuresAsStated ==
    dpc = "done" =>
        /\ decodeIn = <<>> => FailedAsEmpty
        /\ EndsMidVarint(decodeIn) => FailedAsMalformed

\* C16: decodePolyline fails as empty on the empty string and on every
\* string of white space only, and as malformed on every other string that
\* stops in the middle of a varint or before a pair's second varint is
\* complete; it returns no points in both cases.
C16_DecodeFailures ==
    dpc = "done" =>
        /\ WhiteSpaceOnly(decodeIn) => FailedAsEmpty
        /\ (~WhiteSpaceOnly(decodeIn) /\ EndsMidPair(decodeIn)) => FailedAsMalformed

\* a complete pair, then a varint that is cut short: no point comes back
C16_Witness ==
    /\ dpc = "done"
    /\ Len(decodeIn) >= 3
    /\ EndsVarint(decodeIn[1])
    /\ EndsVarint(decodeIn[2])
    /\ EndsMidVarint(decodeIn)
    /\ FailedAsMalformed

\* the five bits a byte carries
Chunk(c) == (c - 63) % 32

\* the values of the complete varints of s, in order: the chunks of a
\* varint's bytes, the first byte's lowest
RECURSIVE VarintsFrom(_, _, _, _, _)
VarintsFrom(s, i, value, weight, out) ==
    IF i > Len(s) THEN out
    ELSE IF EndsVarint(s[i])
         THEN VarintsFrom(s, i + 1, 0, 1, Append(out, value + Chunk(s[i]) * weight))
         ELSE VarintsFrom(s, i + 1, value + Chunk(s[i]) * weight, weight * 32, out)

VarintsOf(s) == VarintsFrom(s, 1, 0, 1, <<>>)

\* the signed delta a varint's value stands for (zig-zag)
Signed(v) == IF v % 2 = 0 THEN v \div 2 ELSE -((v + 1) \div 2)

\* the sum of the deltas at positions first, first + 2, ... up to the k-th pair
RECURSIVE SumOfDeltas(_, _, _)
SumOfDeltas(vs, first, k) ==
    IF k = 0 THEN 0
    ELSE SumOfDeltas(vs, first, k - 1) + Signed(vs[2 * (k - 1) + first])

\* v / 1e5 degrees as a coordinate
E5(v) == <<v * (UnitsPerDegree \div 100000), 0, 1>>

\* C17: on success decodePolyline returns one point per pair of varints,
\* point k being the sum of the first k zig-zag-decoded (latitude,
\* longitude) delta pairs divided by 1e5; "_p~iF~ps|U_ulLnnqC_mqNvxq`@"
\* decodes to exactly 3 points, the first (38.5, -120.2).
C17_RunningSums ==
    /\ (dpc = "done" /\ decodeOut.err.kind = "nil") =>
            LET vs == VarintsOf(decodeIn)
            IN  /\ 2 * Len(decodeOut.points) = Len(vs)
                /\ \A k \in 1..Len(decodeOut.points) :
                        decodeOut.points[k] = [Lat |-> E5(SumOfDeltas(vs, 1, k)),
                                               Lng |-> E5(SumOfDeltas(vs, 2, k))]
    /\ (dpc = "done" /\ decodeIn = testPolyline) =>
            /\ decodeOut.err.kind = "nil"
            /\ Len(decodeOut.points) = 3
            /\ decodeOut.points[1] = [Lat |-> <<385 * (UnitsPerDegree \div 10), 0, 1>>,
                                       Lng |-> <<-1202 * (UnitsPerDegree \div 10), 0, 1>>]

\* the test polyline was decoded: three different points
C17_Witness ==
    /\ dpc = "done"
    /\ decodeIn = testPolyline
    /\ Len(decodeOut.points) = 3
    /\ decodeOut.points[2] # decodeOut.points[1]
    /\ decodeOut.points[3] # decodeOut.points[2]

OpValidation ==
    IF operation = "Search" THEN validateSearchRequest(applySearchDefaults(opReq))
    ELSE IF operation = "Details"
         THEN IF BlankString(opReq.PlaceID) THEN ValidationError("place_id") ELSE NoError
    ELSE validateResolveRequest(applyResolveDefaults(opReq))

RouteValidation == validateRouteRequest(applyRouteDefaults(rawReq))

\* Route with a blank key: nothing is sent, and it returns the validation
\* error of its request, or ErrMissingAPIKey when there is none
RouteWithoutKey ==
    (pc # "off" /\ BlankString(apiKey)) =>
        /\ net = <<>>
        /\ pc = "done" =>
                err = IF RouteValidation # NoError THEN RouteValidation ELSE ErrMissingAPIKey

PlaceIDBreaksURL ==
    /\ operation = "Details"
    /\ ~urlParses(<<47, 112, 108, 97, 99, 101, 115, 47>> \o TrimSpace(opReq.PlaceID))

Inside(x, lo, hi) ==
    /\ x[3] # 0
    /\ x[1] >= lo
    /\ x[1] < hi \/ (x[1] = hi /\ x[2] = 0)

\* the requests Search is to reject (written out from the claim)
Rejectable(r) ==
    \/ BlankString(r.Query)
    \/ (IF r.Limit = 0 THEN 10 ELSE r.Limit) \notin 1..20
    \/ /\ r.Filters # <<>>
       /\ r.Filters[1].MinRating # <<>>
       /\ ~Inside(r.Filters[1].MinRating[1], 0, 5)
    \/ /\ r.Filters # <<>>
       /\ \E i \in 1..Len(r.Filters[1].PriceLevels) : r.Filters[1].PriceLevels[i] \notin 0..4
    \/ /\ r.LocationBias # <<>>
       /\ \/ r.LocationBias[1].RadiusM <= 0
          \/ ~Inside(r.LocationBias[1].Lat, -90 * UnitsPerDegree, 90 * UnitsPerDegree)
          \/ ~Inside(r.LocationBias[1].Lng, -180 * UnitsPerDegree, 180 * UnitsPerDegree)

\* Search rejects the request of the call if and only if it is to
SearchRejectsAsItShould ==
    IF Rejectable(opReq)
    THEN cpc = "done" /\ err.kind = "ValidationError" /\ net = <<>>
    ELSE err.kind # "ValidationError"

\* C20: Search rejects, with a ValidationError and without an HTTP request,
\* every request with a blank query, a limit (0 read as 10) outside 1..20,
\* a minimum rating outside 0..5, a price level outside 0..4, or a location
\* bias with radius <= 0, latitude outside [-90, 90] or longitude outside
\* [-180, 180]; validation accepts every other request.
C20_SearchValidation ==
    (operation = "Search" /\ cpc \in {"wait", "done"}) => SearchRejectsAsItShould

\* no float64 of the request is NaN
WithoutNaN(r) ==
    /\ r.Filters # <<>> => (r.Filters[1].MinRating # <<>> => r.Filters[1].MinRating[1][3] # 0)
    /\ r.LocationBias # <<>> => (r.LocationBias[1].Lat[3] # 0 /\ r.LocationBias[1].Lng[3] # 0)

\* the same for the requests whose numbers are all numbers
SearchValidationWithoutNaN ==
    (operation = "Search" /\ cpc \in {"wait", "done"} /\ WithoutNaN(opReq)) =>
        SearchRejectsAsItShould

(***************************************************************************)
(* handleError                                                             *)
(***************************************************************************)

\* the innermost error of a chain
Root(chain) == chain[Len(chain)]

\* C21: handleError returns 0 for no error, 2 for an error that is a
\* ValidationError or ErrMissingAPIKey (bare or wrapped), and 1 for every
\* other error.
C21_ExitCodes ==
    hpc = "done" =>
        /\ cliErr = <<>> => exitCode = 0
        /\ cliErr # <<>> /\ Root(cliErr).kind = "ValidationError" => exitCode = 2
        /\ cliErr # <<>> /\ Root(cliErr) = ErrMissingAPIKey => exitCode = 2
        /\ cliErr # <<>> /\ Root(cliErr).kind \in OtherKinds => exitCode = 1

\* all four cases of TestHandleError are among the errors handled; this one
\* is the missing key, wrapped once
C21_Witness ==
    /\ hpc = "done"
    /\ cliErr = <<Wrapper, ErrMissingAPIKey>>
    /\ exitCode = 2

(***************************************************************************)
(* Price levels                                                            *)
(***************************************************************************)

FiveNames ==
    {"PRICE_LEVEL_FREE", "PRICE_LEVEL_INEXPENSIVE", "PRICE_LEVEL_MODERATE",
     "PRICE_LEVEL_EXPENSIVE", "PRICE_LEVEL_VERY_EXPENSIVE"}

\* C22: the levels 0..4 map one-to-one onto the five enum names: mapping a
\* level to its name and the name back gives the level again, and the empty
\* string and every string that is none of the five names map to nil.
C22_PriceLevelRoundTrip ==
    ppc = "done" =>
        /\ priceLevel \in 0..4 =>
              /\ priceEnum \in FiveNames
              /\ pricePtr = <<priceLevel>>
        /\ priceLevel \notin 0..4 /\ priceEnum \notin FiveNames =>
              pricePtr = <<>>
        /\ priceLevel \notin 0..4 /\ priceEnum \in FiveNames =>
              /\ pricePtr # <<>>
              /\ pricePtr[1] \in 0..4

\* level 4 went to its name and came back
C22_Witness ==
    /\ ppc = "done"
    /\ priceLevel = 4
    /\ priceEnum = "PRICE_LEVEL_VERY_EXPENSIVE"
    /\ pricePtr = <<4>>

\* a name that differs from an enum name by its case only maps to nil
C22_WitnessUnknown ==
    /\ ppc = "done"
    /\ priceEnum = "price_level_free"
    /\ pricePtr = <<>>

(***************************************************************************)
(* cumulativeDistances, totalDistance and pointAtCumulative                *)
(***************************************************************************)

\* the lowest 0-based index whose table entry is at or above the target
LowestAtOrAbove(tbl, tn, td) ==
    CHOOSE k \in 0..(Len(tbl) - 1) :
        /\ tbl[k + 1] * td >= tn
        /\ \A j \in 0..(k - 1) : tbl[j + 1] * td < tn

\* the mixed fraction x is a + (b - a) * fn / fd, for whole a, b
AlongAxis(x, a, b, fn, fd) ==
    (x[1] * x[3] + x[2]) * fd = x[3] * (a * fd + (b - a) * fn)

\* the point p divides the segment from a to b in the ratio fn/fd
Along(p, a, b, fn, fd) ==
    /\ AlongAxis(p.Lat, a.Lat[1], b.Lat[1], fn, fd)
    /\ AlongAxis(p.Lng, a.Lng[1], b.Lng[1], fn, fd)

\* the call of pointAtCumulative returned, with a target strictly between 0
\* and the total
LocatedInside ==
    /\ tpc = "done"
    /\ tableTarget[1] > 0
    /\ tableTarget[1] < tableTotal * tableTarget[2]

\* in exact arithmetic pointAtCumulative returns the first point for a
\* target <= 0, the last point for a target >= total, and for a target
\* strictly between the point that divides the segment from points[index-1]
\* to points[index], index being the lowest index whose cumulative distance
\* is >= target, which is points[index] for a target equal to cumulative[index]
LocatedExactly ==
    tpc = "done" =>
        LET tn == tableTarget[1]
            td == tableTarget[2]
        IN  /\ tn <= 0 => located.point = tablePoints[1]
            /\ tn >= tableTotal * td => located.point = tablePoints[Len(tablePoints)]
            /\ LocatedInside =>
                  LET k == LowestAtOrAbove(table, tn, td)
                  IN  /\ Along(located.point, tablePoints[k], tablePoints[k + 1],
                               tn - table[k] * td, (table[k + 1] - table[k]) * td)
                      /\ tn = table[k + 1] * td => located.point = tablePoints[k + 1]

\* C25: for every table built by cumulativeDistances and every target with
\* 0 < target < total, the index found obeys 1 <= index <= len(points)-1
\* and cumulative[index-1] < target <= cumulative[index], so the segment is
\* strictly positive and the fraction lies in (0,1]; the index == 0 branch
\* and the zero-length-segment branch are never taken.
C25_SearchInvariant ==
    /\ LocatedInside =>
          /\ located.branch = "fraction"
          /\ located.index >= 1
          /\ located.index <= Len(tablePoints) - 1
          /\ table[located.index] * tableTarget[2] < tableTarget[1]
          /\ tableTarget[1] <= table[located.index + 1] * tableTarget[2]
          /\ located.segment > 0
          /\ located.fden > 0
          /\ located.fnum > 0
          /\ located.fnum <= located.fden
    /\ tpc = "done" => located.branch \notin {"index 0", "segment end"}

\* the sequence repeats a point, the target is the table entry after the
\* repeated one, and the index found skipped the segment of length 0
C25_Witness ==
    /\ LocatedInside
    /\ \E k \in 1..(Len(table) - 1) : table[k + 1] = table[k]
    /\ located.index >= 2
    /\ table[located.index] = table[located.index - 1]
    /\ located.fnum = located.fden

\* C28: cumulativeDistances returns a table as long as the sequence, whose
\* first entry is 0, whose entries never decrease, and whose last entry
\* equals totalDistance of the sequence.
C28_CumulativeTable ==
    tpc # "call" =>
        /\ Len(table) = Len(tablePoints)
        /\ Len(table) > 0 =>
              /\ table[1] = 0
              /\ \A i \in 2..Len(table) : table[i] >= table[i - 1]
              /\ table[Len(table)] = tableTotal

\* a table of four entries with a repeated one and a last entry above it
C28_Witness ==
    /\ tpc = "table"
    /\ Len(table) = 4
    /\ table[2] > 0
    /\ table[3] = table[2]
    /\ table[4] > table[3]
    /\ tableTotal = table[4]

(***************************************************************************)
(* Route: the waypoints sampled, and the field validation reports          *)
(***************************************************************************)

\* the answers of the routes request received so far
RouteAnswers == {p \in 1..Len(net) : net[p].op = "fetch" /\ net[p].ev = "ok"}

\* the call got past validation
Validated ==
    \/ pc \in {"fetch", "fetch_wait", "search", "search_wait"}
    \/ pc = "done" /\ net # <<>>

\* C24: Route never returns the "no route waypoints" error: every polyline
\* that decodes without error gives one point or more, and validation lets
\* through a max-waypoints count of 1 or more only, so sampling in Route
\* never gives zero waypoints.
C24_NoWaypointsUnreachable ==
    /\ err # OtherError("no route waypoints")
    /\ Validated => req.MaxWaypoints >= 1
    /\ \A p \in RouteAnswers :
          LET got == routePolylineOf(net[p].body)
              decoded == decodePolyline(got.polyline)
          IN  (got.err = NoError /\ decoded.err = NoError) =>
                  /\ Len(decoded.points) >= 1
                  /\ Len(sampleWaypoints(decoded.points, req.MaxWaypoints)) >= 1

\* a polyline of one point, sampled with the least count validation lets
\* through, gave a waypoint and the loop was entered
C24_Witness ==
    /\ pc = "search"
    /\ req.MaxWaypoints = 1
    /\ Len(waypoints) = 1
    /\ \E p \in RouteAnswers :
          Len(decodePolyline(routePolylineOf(net[p].body).polyline).points) = 1

\* the fields in the order validateRouteRequest is said to check them
FieldOrder ==
    <<"query", "from", "to", "limit", "radius_m", "max_waypoints", "mode">>

\* the request r, defaults applied, violates the constraint of the field
Violates(r, field) ==
    IF field = "query" THEN Len(r.Query) = 0
    ELSE IF field = "from" THEN Len(r.From) = 0
    ELSE IF field = "to" THEN Len(r.To) = 0
    ELSE IF field = "limit" THEN r.Limit \notin 1..20
    ELSE IF field = "radius_m" THEN ~(r.RadiusM > 0)
    ELSE IF field = "max_waypoints" THEN r.MaxWaypoints \notin 1..20
    ELSE r.Mode \notin {travelModeDrive, travelModeWalk, travelModeBicycle,
                        travelModeTwoWheeler, travelModeTransit}

ViolatedAt(r) == {i \in 1..Len(FieldOrder) : Violates(r, FieldOrder[i])}

\* the call returned a ValidationError before it sent anything
StoppedByValidation == pc = "done" /\ net = <<>> /\ err.kind = "ValidationError"

\* C29: validateRouteRequest reports exactly one field, the first violated
\* one in the order query, from, to, limit, radius_m, max_waypoints, mode,
\* and returns no error exactly when none of the seven constraints is
\* violated.
C29_FirstViolatedField ==
    pc # "call" =>
        LET violated == ViolatedAt(req)
        IN  IF violated = {}
            THEN ~StoppedByValidation
            ELSE /\ StoppedByValidation
                 /\ \A i \in violated : (\A j \in violated : i <= j) =>
                        err = ValidationError(FieldOrder[i])

\* destination, limit, max waypoints and mode are all violated: the
\* destination is reported
C29_Witness ==
    /\ StoppedByValidation
    /\ {3, 4, 6, 7} \subseteq ViolatedAt(req)
    /\ err = ValidationError("to")

(***************************************************************************)
(* decodePolyline: which inputs succeed                                    *)
(***************************************************************************)

\* C26: decodePolyline never rejects an input for its characters.  An input
\* that is not white space only succeeds exactly when its last byte ends a
\* varint (byte - 63 < 0x20, which every byte below 63 does) and the number
\* of bytes that end a varint is even, and fails as malformed otherwise; an
\* input of white space only fails as empty, also when its bytes are
\* complete pairs of varints.
C26_DecodeSucceedsIff ==
    dpc = "done" =>
        IF WhiteSpaceOnly(decodeIn) THEN FailedAsEmpty
        ELSE IF /\ EndsVarint(decodeIn[Len(decodeIn)])
                /\ CompleteVarints(decodeIn) % 2 = 0
             THEN /\ decodeOut.err = NoError
                  /\ Len(decodeOut.points) = CompleteVarints(decodeIn) \div 2
             ELSE FailedAsMalformed

\* an input that holds a blank, a byte below 63, decoded into a point
C26_Witness ==
    /\ dpc = "done"
    /\ 32 \in {decodeIn[i] : i \in 1..Len(decodeIn)}
    /\ decodeOut.err = NoError
    /\ Len(decodeOut.points) >= 1

\* two blanks are a complete pair of varints and fail as empty
C26_WitnessBlank ==
    /\ dpc = "done"
    /\ decodeIn = <<32, 32>>
    /\ FailedAsEmpty

(***************************************************************************)
(* The waypoints stay inside the bounding box of the points                *)
(***************************************************************************)

\* lo <= x <= hi in float64
Between64(x, lo, hi) == fleq(lo, x) /\ fleq(x, hi)

\* p lies inside the bounding box of the points pts
InBox64(p, pts) ==
    /\ \E i \in 1..Len(pts) : fleq(pts[i].Lat, p.Lat)
    /\ \E i \in 1..Len(pts) : fleq(p.Lat, pts[i].Lat)
    /\ \E i \in 1..Len(pts) : fleq(pts[i].Lng, p.Lng)
    /\ \E i \in 1..Len(pts) : fleq(p.Lng, pts[i].Lng)

InRange64(p) ==
    /\ Between64(p.Lat, fromInt(0 - 90), fromInt(90))
    /\ Between64(p.Lng, fromInt(0 - 180), fromInt(180))

\* the lowest index of the table at or above the target (from 1)
LowestAtOrAbove64(tbl, target) ==
    CHOOSE k \in 1..Len(tbl) :
        /\ fleq(target, tbl[k])
        /\ \A j \in 1..(k - 1) : fless(tbl[j], target)

\* sampleWaypoints returned what pointAtDistance found at half the total
HalfwayLocated ==
    /\ fpc \in {"search", "done"}
    /\ wanted = 1
    /\ Len(points64) >= 2

\* C23: pointAtCumulative returns the first point for every target <= 0 and
\* the last point for every target >= total; for 0 < target < total it
\* returns the linear interpolation between points[index-1] and
\* points[index], index being the lowest index whose cumulative distance is
\* >= target, so a target equal to cumulative[k] yields points[k] for the
\* lowest such k.
C23_PointAtCumulative ==
    HalfwayLocated =>
        LET tbl == cumulativeDistances64(points64)
            total == tbl[Len(tbl)]
            target == fdiv(totalDistance64(points64), fromInt(2))
            p == waypoints64[1]
        IN  /\ fleq(target, fromInt(0)) => p = points64[1]
            /\ fleq(total, target) /\ fless(fromInt(0), target) =>
                  p = points64[Len(points64)]
            /\ fless(fromInt(0), target) /\ fless(target, total) =>
                  LET k == LowestAtOrAbove64(tbl, target)
                      fraction == fdiv(fsub(target, tbl[k - 1]), fsub(tbl[k], tbl[k - 1]))
                      prev == points64[k - 1]
                      next == points64[k]
                  IN  /\ p.Lat = fadd(prev.Lat, fmul(fsub(next.Lat, prev.Lat), fraction))
                      /\ p.Lng = fadd(prev.Lng, fmul(fsub(next.Lng, prev.Lng), fraction))
                      /\ target = tbl[k] => p = points64[k]

\* C27: every waypoint sampleWaypoints returns lies inside the bounding box
\* of the points it was given; so when every decoded point of a route has a
\* latitude in [-90, 90] and a longitude in [-180, 180], no search Route
\* issues for a waypoint is rejected by the validation of the location bias.
C27_WaypointsInBox ==
    /\ fpc \in {"search", "done"} =>
          \A j \in 1..Len(waypoints64) : InBox64(waypoints64[j], points64)
    /\ (fpc = "done" /\ \A i \in 1..Len(points64) : InRange64(points64[i])) =>
          biasErr = NoError

(***************************************************************************)
(* Concurrent callers (under SharedSpec)                                   *)
(***************************************************************************)

\* what the call of goroutine g returned
ResultOf(g) ==
    IF calls[g].fn \in {"sampleWaypoints", "cumulativeDistances"}
    THEN SliceOf(heap, calls[g].out)
    ELSE calls[g].value

\* what the call of goroutine g returns when nothing else runs
AloneResultOf(g) ==
    CASE calls[g].fn = "sampleWaypoints" -> sampleWaypoints(given.points, calls[g].n)
      [] calls[g].fn = "cumulativeDistances" -> cumulativeDistances(given.points)
      [] calls[g].fn = "decodePolyline" -> decodePolyline(given.encoded)
      [] calls[g].fn = "distanceMeters" ->
            distanceMeters(given.points[1], given.points[Len(given.points)])

\* C30: decodePolyline, sampleWaypoints, cumulativeDistances and
\* distanceMeters leave their inputs and all shared state unchanged, and the
\* slice returned is freshly allocated: however the steps of concurrent calls
\* interleave, each returns what it returns when run on its own.
C30_CallsIndependent ==
    /\ heap[InputArray] = given.points
    /\ \A g \in Goroutines :
          /\ calls[g].out.arr \in {0, OwnArray(g)}
          /\ calls[g].pc = "done" => ResultOf(g) = AloneResultOf(g)

\* both calls returned, each having taken a step while the other was inside
\* its call: uniqueWaypoints dropped a point, cumulativeDistances filled its
\* table
C30_Witness ==
    /\ \A g \in Goroutines : calls[g].pc = "done" /\ calls[g].met
    /\ calls[1].fn = "sampleWaypoints"
    /\ calls[1].n >= Len(given.points)
    /\ 0 < calls[1].out.len
    /\ calls[1].out.len < Len(given.points)
    /\ calls[2].fn = "cumulativeDistances"
    /\ ResultOf(2)[Len(given.points)] > 0

====
